---- MODULE Spec2Model ----
(***************************************************************************)
(* A model of guregu/localcache: the caching decorator of cache.go (the    *)
(* current variant, lines 1-661) and the key derivation of keys.go         *)
(* (src/unnamed/part_000).  Every handler of Cache is one atomic action;   *)
(* the remote DynamoDB table store is the variable db.                     *)
(***************************************************************************)
EXTENDS Integers, Sequences, FiniteSets, TLC

VARIABLES
  db,             \* the remote store: table name -> set of items
  items,          \* Cache.items: item key -> [v, ttl]
  tableDesc,      \* Cache.tableDesc: table name -> DescribeTableOutput
  queries,        \* Cache.queries: <<primary, secondary>> -> [v, ttl]
  scans,          \* Cache.scans: <<primary, secondary>> -> [v, ttl]
  allowedTables,  \* Cache.allowedTables
  hits,           \* Cache.hits
  miss,           \* Cache.miss
  pending,        \* caller -> the call it is in the middle of, for the calls
                  \* that run step by step beside the calls of other callers
  described,      \* table name -> the number of DescribeTable calls the store
                  \* has answered with a description
  last,           \* the last call: its name, its error, the remote calls it issued
  seen            \* <<table, key>> -> what GetItem last returned for it, and
                  \* <<"Query" or "Scan", request>> -> what the read last
                  \* returned for it, since the last mutation or PurgeAll

vars == <<db, items, tableDesc, queries, scans, allowedTables, hits, miss, pending,
          described, last, seen>>

(***************************************************************************)
(* Bounds of the model.                                                    *)
(***************************************************************************)
\* number of distinct values the non-key attribute "a" takes
NumAVals == 1
\* largest number of sub-requests of a batch or a transaction
MaxBatch == 1
\* largest number of cache lookups the counters hits and miss are followed
\* through
MaxLookups == 3
\* number of callers whose calls run concurrently
NumCallers == 2

(***************************************************************************)
(* Values.  An AttributeValue is a record with the one field of its tag;   *)
(* a nil pointer and a nil map are the empty function.                     *)
(***************************************************************************)
Nil == << >>

S(str) == [S |-> str]

\* var none = &struct{}{}: the "confirmed absent" sentinel of the item cache
none == [sentinel |-> "none"]

\* m[k] of a Go map: the nil pointer when the key is missing
Lookup(m, k) == IF k \in DOMAIN m THEN m[k] ELSE Nil

AValNames == <<"p", "q", "s", "u">>
AVals == {AValNames[i] : i \in 1..NumAVals}

RECURSIVE SeqsUpTo(_, _)
\* the duplicate-free sequences over set of length 1..n
SeqsUpTo(set, n) ==
  IF n = 0 \/ set = {} THEN {}
  ELSE {<<e>> : e \in set} \cup
       UNION {{<<e>> \o q : q \in SeqsUpTo(set \ {e}, n - 1)} : e \in set}

Range(seq) == {seq[i] : i \in 1..Len(seq)}

(***************************************************************************)
(* keys.go (src/unnamed/part_000)                                          *)
(***************************************************************************)
Digits == <<"0", "1", "2", "3", "4", "5", "6", "7", "8", "9">>

RECURSIVE FormatInt(_)
\* strconv.FormatInt(n, 10)
FormatInt(n) ==
  IF n < 0 THEN "-" \o FormatInt(0 - n)
  ELSE IF n < 10 THEN Digits[n + 1]
  ELSE FormatInt(n \div 10) \o Digits[(n % 10) + 1]

\* a Go map is the function m together with range, the order in which the
\* range statement of this evaluation visits its keys: the runtime picks the
\* order anew at every range, so that one map comes with any order of its
\* keys.  The nil map is GoMap(<< >>, << >>).
GoMap(m, order) == [m |-> m, range |-> order]

RECURSIVE writeAV(_)
RECURSIVE writeAVList(_)
RECURSIVE writeStrList(_)
RECURSIVE writeBytes(_)
RECURSIVE writeBS(_)
RECURSIVE writeAVMap(_, _)

\* &dynamodb.AttributeValue{}: an attribute value none of whose fields is set
EmptyAV == [unset |-> TRUE]

\* an av writeAV panics on: a nil pointer (nil dereference after "<nil>") or
\* an av with none of the recognized tags
writeAVPanics(av) ==
  DOMAIN av \cap {"B", "BS", "BOOL", "N", "S", "L", "NS", "SS", "M", "NULL"} = {}

\* a BS is a sequence of byte slices, each a sequence of numbers; every other
\* string-like value is a string
writeAV(av) ==
  CASE "B" \in DOMAIN av -> av.B
    [] "BS" \in DOMAIN av -> "[" \o writeBS(av.BS) \o "]"
    [] "BOOL" \in DOMAIN av -> (IF av.BOOL THEN "true" ELSE "") \o "false"
    [] "N" \in DOMAIN av -> av.N
    [] "S" \in DOMAIN av -> av.S
    [] "L" \in DOMAIN av -> "L:" \o writeAVList(av.L)
    [] "NS" \in DOMAIN av -> "NS:" \o writeStrList(av.NS)
    [] "SS" \in DOMAIN av -> "SS:" \o writeStrList(av.SS)
    [] "M" \in DOMAIN av -> "M:" \o writeAVMap(av.M, 1)
    [] "NULL" \in DOMAIN av -> "NULL"
    [] OTHER -> "<panic>"

writeAVList(l) ==
  IF l = << >> THEN "" ELSE writeAV(Head(l)) \o "," \o writeAVList(Tail(l))

writeStrList(l) ==
  IF l = << >> THEN "" ELSE Head(l) \o "," \o writeStrList(Tail(l))

\* fmt.Sprint of a []byte: its numbers between brackets
writeBytes(b) ==
  IF b = << >> THEN ""
  ELSE FormatInt(Head(b)) \o (IF Len(b) > 1 THEN " " ELSE "") \o writeBytes(Tail(b))

\* fmt.Sprint of the elements of a [][]byte
writeBS(bs) ==
  IF bs = << >> THEN ""
  ELSE "[" \o writeBytes(Head(bs)) \o "]" \o (IF Len(bs) > 1 THEN " " ELSE "")
       \o writeBS(Tail(bs))

\* lines 167-172: the entries of av.M from the i-th the range visits
writeAVMap(gm, i) ==
  IF i > Len(gm.range) THEN ""
  ELSE gm.range[i] \o "=" \o writeAV(gm.m[gm.range[i]]) \o "," \o writeAVMap(gm, i + 1)

av2str(av) == writeAV(av)

tableHashKey(table, hk, idx) ==
  table \o (IF hk # Nil THEN "&" \o writeAV(hk) ELSE "")
        \o (IF idx # "" THEN "#" \o idx ELSE "")

writeItemKey(table, key, schema) ==
  table \o "$" \o schema[1] \o ":" \o writeAV(Lookup(key, schema[1]))
        \o (IF Len(schema) > 1
            THEN "/" \o schema[2] \o ":" \o writeAV(Lookup(key, schema[2]))
            ELSE "")

itemKey(table, key, schema) == writeItemKey(table, key, schema)

\* the byte 0x60 that queryKey writes after an attribute name (a TLA+ string
\* cannot hold that character; no value of the model contains this one)
BackQuote == "^"

RECURSIVE writeCondList(_, _)
writeCondList(avs, i) ==
  IF i > Len(avs) THEN ""
  ELSE (IF i > 1 THEN "~" ELSE "") \o writeAV(avs[i]) \o writeCondList(avs, i + 1)

writeCond(cond) ==
  cond.ComparisonOperator \o " " \o writeCondList(cond.AttributeValueList, 1)

\* writeItemKey panics when writeAV does on one of the key's attributes
writeItemKeyPanics(key, schema) ==
  \E i \in 1..Len(schema) : writeAVPanics(Lookup(key, schema[i]))

\* writeCond panics when writeAV does on one of the operands
writeCondPanics(cond) ==
  \E i \in 1..Len(cond.AttributeValueList) : writeAVPanics(cond.AttributeValueList[i])

(***************************************************************************)
(* writeExpr.  An expression and a placeholder are sequences of characters *)
(* (one-character strings): the Replacer compares them byte by byte.       *)
(***************************************************************************)
\* lines 181-187: the pairs, the names before the values, each map in the
\* order its range visits it
exprPairs(names, vals) ==
  [i \in 1..Len(names.range) |-> [old |-> names.range[i], new |-> names.m[names.range[i]]]]
  \o [i \in 1..Len(vals.range) |->
        [old |-> vals.range[i], new |-> av2str(vals.m[vals.range[i]])]]

\* the old string of pair matches exp at position i
MatchesAt(pair, exp, i) ==
  /\ i + Len(pair.old) - 1 <= Len(exp)
  /\ SubSeq(exp, i, i + Len(pair.old) - 1) = pair.old

RECURSIVE replaceFrom(_, _, _)
\* strings.NewReplacer(pairs...).WriteString(w, exp) from position i: where
\* several old strings match, the pair that comes first in the arguments is
\* taken; the matches do not overlap
replaceFrom(pairs, exp, i) ==
  IF i > Len(exp) THEN ""
  ELSE LET hit == {n \in 1..Len(pairs) : MatchesAt(pairs[n], exp, i)}
           first == CHOOSE n \in hit : \A m \in hit : n <= m
       IN  IF hit = {} THEN exp[i] \o replaceFrom(pairs, exp, i + 1)
           ELSE pairs[first].new \o replaceFrom(pairs, exp, i + Len(pairs[first].old))

writeExpr(exp, names, vals) == replaceFrom(exprPairs(names, vals), exp, 1)

\* the "?"-part of a request key: the resolved filter expression of input
writeFilter(input) ==
  IF "FilterExpression" \in DOMAIN input
  THEN "?" \o writeExpr(input.FilterExpression, input.ExpressionAttributeNames,
                        input.ExpressionAttributeValues)
  ELSE ""

\* a request's optional fields are the fields its record carries; IndexName
\* is "" for nil.  A request that carries a FilterExpression carries the two
\* maps of its placeholders.
queryKey(input, schema) ==
  (IF "Select" \in DOMAIN input THEN input.Select ELSE "*")
  \o (IF "ScanIndexForward" \notin DOMAIN input \/ input.ScanIndexForward THEN ".f " ELSE ".b ")
  \o (IF input.IndexName # "" THEN input.IndexName \o "#" ELSE "")
  \o schema[1] \o BackQuote \o writeCond(input.KeyConditions[schema[1]])
  \o (IF Cardinality(DOMAIN input.KeyConditions) > 1
      THEN "&" \o schema[2] \o BackQuote \o writeCond(input.KeyConditions[schema[2]])
      ELSE "")
  \o (IF "ExclusiveStartKey" \in DOMAIN input /\ DOMAIN input.ExclusiveStartKey # {}
      THEN "@" \o writeItemKey(input.TableName, input.ExclusiveStartKey, schema)
      ELSE "")
  \o writeFilter(input)
  \o (IF "Limit" \in DOMAIN input THEN "|" \o FormatInt(input.Limit) ELSE "")

\* queryKey panics when a key condition carries an operand writeAV panics on
queryKeyPanics(input, schema) ==
  \E i \in 1..Len(schema) :
    /\ i = 1 \/ Cardinality(DOMAIN input.KeyConditions) > 1
    /\ schema[i] \in DOMAIN input.KeyConditions
    /\ writeCondPanics(input.KeyConditions[schema[i]])

\* scanKey panics when the cursor carries an attribute writeAV panics on
scanKeyPanics(input, schema) ==
  /\ "ExclusiveStartKey" \in DOMAIN input
  /\ DOMAIN input.ExclusiveStartKey # {}
  /\ writeItemKeyPanics(input.ExclusiveStartKey, schema)

scanKey(input, schema) ==
  (IF "Select" \in DOMAIN input THEN input.Select ELSE "*")
  \o (IF input.IndexName # "" THEN input.IndexName \o "#" ELSE "")
  \o (IF "ExclusiveStartKey" \in DOMAIN input /\ DOMAIN input.ExclusiveStartKey # {}
      THEN "@" \o writeItemKey(input.TableName, input.ExclusiveStartKey, schema)
      ELSE "")
  \o writeFilter(input)
  \o (IF "Limit" \in DOMAIN input THEN "|" \o FormatInt(input.Limit) ELSE "")

\* one attribute of keyEqLoose's loop: the switch compares S, B and N only
keyEqAttr(v, other) ==
  CASE "S" \in DOMAIN v -> "S" \in DOMAIN other /\ v.S = other.S
    [] "B" \in DOMAIN v -> "B" \in DOMAIN other /\ v.B = other.B
    [] "N" \in DOMAIN v -> "N" \in DOMAIN other /\ v.N = other.N
    [] OTHER -> TRUE

keyEqLoose(a, b) ==
  \A k \in DOMAIN a : k \in DOMAIN b /\ keyEqAttr(a[k], b[k])

keyEq(a, b) ==
  IF Cardinality(DOMAIN a) # Cardinality(DOMAIN b) THEN FALSE ELSE keyEqLoose(a, b)

(***************************************************************************)
(* The remote store (the embedded *dynamodb.DynamoDB): the tables, their   *)
(* descriptions and the store's answers.                                   *)
(***************************************************************************)
\* T1 has a hash key only; T2 has a hash and a range key, a global index g
\* on (a, r) and a local index l on (h, a)
DescribeTable(table) ==
  IF table = "T1"
  THEN [KeySchema |-> <<"h">>,
        GlobalSecondaryIndexes |-> <<[IndexName |-> "s", KeySchema |-> <<"a">>]>>,
        LocalSecondaryIndexes |-> << >>]
  ELSE [KeySchema |-> <<"h", "r">>,
        GlobalSecondaryIndexes |-> <<[IndexName |-> "g", KeySchema |-> <<"a", "r">>]>>,
        LocalSecondaryIndexes |-> <<[IndexName |-> "l", KeySchema |-> <<"h", "a">>]>>]

Tables == {"T1", "T2"}

KeyAttrs(table) == Range(DescribeTable(table).KeySchema)

KeyOf(table, item) == [a \in KeyAttrs(table) |-> item[a]]

SameKey(table, item, key) == \A a \in KeyAttrs(table) : item[a] = key[a]

\* the item the store holds under key, or the nil map
StoreGet(d, table, key) ==
  IF \E i \in d[table] : SameKey(table, i, key)
  THEN CHOOSE i \in d[table] : SameKey(table, i, key)
  ELSE Nil

StoreDelete(d, table, key) ==
  [d EXCEPT ![table] = {i \in @ : ~SameKey(table, i, key)}]

StorePut(d, table, item) ==
  [d EXCEPT ![table] = {i \in @ : ~SameKey(table, i, item)} \cup {item}]

\* an update expression: SET a = upd.a, or (upd = Nil) REMOVE a
ApplyUpdate(old, key, upd) ==
  LET base == IF old = Nil THEN key ELSE old
  IN  IF upd = Nil THEN [x \in DOMAIN base \ {"a"} |-> base[x]] ELSE upd @@ base

StoreUpdate(d, table, key, upd) ==
  StorePut(d, table, ApplyUpdate(StoreGet(d, table, key), key, upd))

\* UpdateItemOutput.Attributes for a ReturnValues setting
UpdateAttributes(old, new, upd, rv) ==
  CASE rv = "ALL_NEW" -> new
    [] rv = "ALL_OLD" -> old
    [] rv = "UPDATED_NEW" -> [x \in DOMAIN new \cap {"a"} |-> new[x]]
    [] rv = "UPDATED_OLD" -> [x \in DOMAIN old \cap {"a"} |-> old[x]]
    [] OTHER -> Nil

\* DeleteItemOutput.Attributes for a ReturnValues setting
DeleteAttributes(old, rv) == IF rv = "ALL_OLD" THEN old ELSE Nil

\* the key schema a Query or Scan input runs on: the table's or the index's
IndexSchemaOf(table, index) ==
  LET d == DescribeTable(table)
      all == d.GlobalSecondaryIndexes \o d.LocalSecondaryIndexes
  IN  IF index = "" THEN d.KeySchema
      ELSE (CHOOSE i \in Range(all) : i.IndexName = index).KeySchema

\* the items of a table, or of one of its indexes (an item is in an index
\* when it carries the index's key attributes)
Members(d, table, index) ==
  {i \in d[table] : Range(IndexSchemaOf(table, index)) \subseteq DOMAIN i}

CondHolds(item, attr, cond) ==
  attr \in DOMAIN item /\ cond.ComparisonOperator = "EQ" /\ item[attr] = cond.AttributeValueList[1]

StoreQuery(d, input) ==
  [Items |-> {i \in Members(d, input.TableName, input.IndexName) :
                \A attr \in DOMAIN input.KeyConditions :
                   CondHolds(i, attr, input.KeyConditions[attr])}]

StoreScan(d, input) ==
  [Items |-> Members(d, input.TableName, input.IndexName)]

(***************************************************************************)
(* cache.go: the cache stores.  Within a handler the Cache's stores are    *)
(* the record c: items, tableDesc, queries, scans, with the remote calls   *)
(* the handler has issued so far (remote) and whether it panicked.         *)
(***************************************************************************)
\* time is counted in units of five minutes: line 17 and lines 110, 122, 613
cacheTTL == 3
queryTTL == 1
descTTL == 288

\* a ccache.Item: its value and the time left until it expires
Entry(v, ttl) == [v |-> v, ttl |-> ttl]

\* ccache.Item.Expired()
Expired(item) == item.ttl = 0

\* ccache.LayeredCache.DeleteAll(primary)
DeleteAll(layered, primary) ==
  [p \in {q \in DOMAIN layered : q[1] # primary} |-> layered[p]]

isAllowed(allowed, table) ==
  IF Cardinality(allowed) = 0 THEN TRUE ELSE table \in allowed

\* getItem without lines 86-88: an expired item is returned like any other
getItem_NoExpiry(c, key) ==
  IF key \notin DOMAIN c.items THEN [v |-> Nil, ok |-> FALSE]
  ELSE [v |-> c.items[key].v, ok |-> TRUE]

getItem(c, key) ==
  IF key \notin DOMAIN c.items THEN [v |-> Nil, ok |-> FALSE]
  ELSE IF Expired(c.items[key]) THEN [v |-> Nil, ok |-> FALSE]
  ELSE [v |-> c.items[key].v, ok |-> TRUE]

\* setItem without the Set: the value is not stored
setItem_NotStored(c, key, v) == c

setItem(c, key, v) ==
  [c EXCEPT !.items = (key :> Entry(v, cacheTTL)) @@ c.items]

deleteItem(c, key) ==
  [c EXCEPT !.items = [k \in DOMAIN c.items \ {key} |-> c.items[k]]]

\* ccache's Get returns an expired item too, and lines 102-106 do not look
\* at Expired()
getQuery(c, table, key) ==
  IF <<table, key>> \notin DOMAIN c.queries THEN [v |-> Nil, ok |-> FALSE]
  ELSE [v |-> c.queries[<<table, key>>].v, ok |-> TRUE]

setQuery(c, table, key, v) ==
  [c EXCEPT !.queries = (<<table, key>> :> Entry(v, queryTTL)) @@ c.queries]

\* lines 114-118 do not look at Expired() either
getScan(c, table, key) ==
  IF <<table, key>> \notin DOMAIN c.scans THEN [v |-> Nil, ok |-> FALSE]
  ELSE [v |-> c.scans[<<table, key>>].v, ok |-> TRUE]

setScan(c, table, key, v) ==
  [c EXCEPT !.scans = (<<table, key>> :> Entry(v, queryTTL)) @@ c.scans]

\* Cache.desc: the cached description, expired or not, or a DescribeTable
\* call (dOk: whether the store answers it) whose answer is cached
\* Cache.log without the test of line 573: the line is printed whatever
\* Debug is
log_Unguarded(c, v) == [c EXCEPT !.logged = Append(@, v)]

\* lines 572-576: log.Println(v...) when Debug is set; logged is what the
\* standard logger has received.  A handler that has panicked logs no more.
log(c, v) ==
  IF c.Debug /\ ~c.panic THEN [c EXCEPT !.logged = Append(@, v)] ELSE c

desc(c, table, dOk) ==
  IF table \in DOMAIN c.tableDesc
  THEN [c |-> c, out |-> c.tableDesc[table].v, err |-> FALSE]
  ELSE LET c1 == [c EXCEPT !.remote = Append(@, [call |-> "DescribeTable", arg |-> Nil])]
       IN  IF ~dOk THEN [c |-> c1, out |-> Nil, err |-> TRUE]
           ELSE [c |-> log([c1 EXCEPT !.tableDesc =
                                   (table :> Entry(DescribeTable(table), descTTL)) @@ c.tableDesc],
                           "caching desc"),
                 out |-> DescribeTable(table), err |-> FALSE]

schemaOf(c, table, dOk) ==
  LET d == desc(c, table, dOk)
  IN  [c |-> d.c, out |-> IF d.err THEN Nil ELSE d.out.KeySchema, err |-> d.err]

\* the index named index among a description's indexes, global ones first
FindIndex(d, index) ==
  LET all == d.GlobalSecondaryIndexes \o d.LocalSecondaryIndexes
      hit == {i \in 1..Len(all) : all[i].IndexName = index}
  IN  IF hit = {} THEN Nil ELSE all[CHOOSE i \in hit : \A j \in hit : i <= j]

\* panics ("index not found") when no index has the name
schemaOfIndex(c, table, index, dOk) ==
  LET d == desc(c, table, dOk)
  IN  IF d.err THEN [c |-> d.c, out |-> Nil, err |-> TRUE]
      ELSE IF FindIndex(d.out, index) = Nil
           THEN [c |-> [d.c EXCEPT !.panic = TRUE], out |-> Nil, err |-> FALSE]
           ELSE [c |-> d.c, out |-> FindIndex(d.out, index).KeySchema, err |-> FALSE]

\* lines 557-563
incHit(c) == [c EXCEPT !.hits = @ + 1]

incMiss(c) == [c EXCEPT !.miss = @ + 1]

\* lines 565-570: float64(hits) / max(float64(total), 1), as a fraction
HitRatio(c) ==
  [num |-> c.hits, den |-> IF c.hits + c.miss > 1 THEN c.hits + c.miss ELSE 1]

(***************************************************************************)
(* cache.go: Cache.invalidate                                              *)
(***************************************************************************)
\* invalidate without line 130: the scans of the table are kept
invalidateScans_Kept(c, table) == c

\* line 130: c.scans.DeleteAll(table)
invalidateScans(c, table) ==
  [c EXCEPT !.scans = DeleteAll(c.scans, table)]

\* lines 131-137 without the single-component branch: the group keyed by the
\* item's hash value is purged whatever the key schema
invalidateTable_HashScoped(c, table, item, keySchema) ==
  [c EXCEPT !.queries =
     DeleteAll(c.queries, tableHashKey(table, Lookup(item, keySchema[1]), ""))]

\* lines 131-137: the table's own query group
invalidateTable(c, table, item, keySchema) ==
  IF Len(keySchema) = 1
  THEN [c EXCEPT !.queries = DeleteAll(c.queries, table)]
  ELSE [log(c, "invalidate") EXCEPT !.queries =
          DeleteAll(c.queries, tableHashKey(table, Lookup(item, keySchema[1]), ""))]

\* lines 139-147: one global secondary index
invalidateGSI(c, table, item, gsi) ==
  IF Len(gsi.KeySchema) = 1
  THEN [log(c, "invalidate") EXCEPT !.queries =
          DeleteAll(c.queries, tableHashKey(table, Nil, gsi.IndexName))]
  ELSE IF gsi.KeySchema[1] \in DOMAIN item
       THEN [log(c, "invalidate") EXCEPT !.queries =
               DeleteAll(c.queries, tableHashKey(table, item[gsi.KeySchema[1]], gsi.IndexName))]
       ELSE c

\* lines 150-154: one local secondary index
invalidateLSI(c, table, item, lsi) ==
  IF lsi.KeySchema[1] \in DOMAIN item
  THEN [log(c, "invalidate") EXCEPT !.queries =
          DeleteAll(c.queries, tableHashKey(table, item[lsi.KeySchema[1]], lsi.IndexName))]
  ELSE c

RECURSIVE invalidateGSIs(_, _, _, _)
invalidateGSIs(c, table, item, gsis) ==
  IF gsis = << >> THEN c
  ELSE invalidateGSIs(invalidateGSI(c, table, item, Head(gsis)), table, item, Tail(gsis))

RECURSIVE invalidateLSIs(_, _, _, _)
invalidateLSIs(c, table, item, lsis) ==
  IF lsis = << >> THEN c
  ELSE invalidateLSIs(invalidateLSI(c, table, item, Head(lsis)), table, item, Tail(lsis))

\* a handler that has panicked does nothing more
invalidate(c, table, item, dOk) ==
  IF c.panic THEN c
  ELSE LET d == desc(c, table, dOk)
       IN  IF d.err THEN [d.c EXCEPT !.panic = TRUE]
           ELSE invalidateLSIs(
                  invalidateGSIs(
                    invalidateTable(invalidateScans(d.c, table), table, item, d.out.KeySchema),
                    table, item, d.out.GlobalSecondaryIndexes),
                  table, item, d.out.LocalSecondaryIndexes)

invalidateRough(c, table, item, dOk) == invalidate(c, table, item, dOk)

(***************************************************************************)
(* cache.go: the prefetcher.  keys is the batch add() built, a sequence of *)
(* [table, key]; run reads them from the store in pages and invalidates    *)
(* with every item a page returns.  pages is the number of keys read       *)
(* before a page fails; with pages >= Len(keys) every page arrives.        *)
(***************************************************************************)
RECURSIVE prefetchPages(_, _, _, _)
prefetchPages(c, d, keys, dOk) ==
  IF keys = << >> THEN c
  ELSE LET resp == StoreGet(d, Head(keys).table, Head(keys).key)
           c1 == IF resp = Nil THEN c
                 ELSE invalidate(log(c, "hacky invalidate:"), Head(keys).table, resp, dOk)
       IN  prefetchPages(c1, d, Tail(keys), dOk)

\* lines 631-645: the batch add() builds; every table's KeysAndAttributes
\* has ConsistentRead set
prefetchBatch(keys) == [call |-> "BatchGetItemPages", arg |-> keys, ConsistentRead |-> TRUE]

RECURSIVE prefetchCached(_, _, _)
\* a prefetch of keys that are all in the item cache, read from that cache
prefetchCached(c, keys, dOk) ==
  IF keys = << >> THEN c
  ELSE LET k == Head(keys)
           hit == c.items[itemKey(k.table, k.key, DescribeTable(k.table).KeySchema)].v
           c1 == IF hit = none THEN c ELSE invalidate(c, k.table, hit, dOk)
       IN  prefetchCached(c1, Tail(keys), dOk)

\* a prefetcher that reads through the Cache's own GetItem path: keys the item
\* cache holds are not read from the store
prefetchRun_ThroughCache(c, d, keys, pages, dOk) ==
  IF keys = << >> THEN [c |-> c, err |-> FALSE]
  ELSE IF \A i \in 1..Len(keys) :
            itemKey(keys[i].table, keys[i].key, DescribeTable(keys[i].table).KeySchema)
              \in DOMAIN c.items
       THEN [c |-> prefetchCached(c, keys, dOk), err |-> FALSE]
       ELSE LET c1 == [c EXCEPT !.remote = Append(@, prefetchBatch(keys))]
                n == IF pages > Len(keys) THEN Len(keys) ELSE pages
            IN  [c |-> prefetchPages(c1, d, SubSeq(keys, 1, n), dOk), err |-> pages < Len(keys)]

prefetchRun(c, d, keys, pages, dOk) ==
  IF keys = << >> THEN [c |-> c, err |-> FALSE]
  ELSE LET c1 == [c EXCEPT !.remote = Append(@, prefetchBatch(keys))]
           n == IF pages > Len(keys) THEN Len(keys) ELSE pages
       IN  [c |-> prefetchPages(c1, d, SubSeq(keys, 1, n), dOk), err |-> pages < Len(keys)]

(***************************************************************************)
(* The handlers.  Each action is one whole call of the Cache; its inputs   *)
(* are the request and the store's behaviour during the call: dOk, whether *)
(* DescribeTable succeeds; rOk, whether the forwarded call succeeds.       *)
(***************************************************************************)
Cache ==
  [items |-> items, tableDesc |-> tableDesc, queries |-> queries, scans |-> scans,
   hits |-> hits, miss |-> miss, remote |-> << >>, panic |-> FALSE,
   Debug |-> FALSE, logged |-> << >>]

\* the handler panics: the goroutine of the call unwinds and, as nothing
\* recovers, the process crashes
Panicked(c) == [c EXCEPT !.panic = TRUE]

\* the handler issues a remote call
CalledWith(c, call, arg) == [c EXCEPT !.remote = Append(@, [call |-> call, arg |-> arg])]

Called(c, call) == CalledWith(c, call, Nil)

\* the callers, and a caller that is in no call
Callers == 1..NumCallers

Idle == [at |-> "idle"]

\* the state a handler starts from: the cache's stores, the remote store and
\* the allowed tables
Now == [c |-> Cache, db |-> db, allowed |-> allowedTables]

\* the state a handler's return r leaves to the next call
After(st, r) == [c |-> [r.c EXCEPT !.remote = << >>], db |-> r.db, allowed |-> st.allowed]

NoRec == [norec |-> TRUE]

\* whether the scan and the query cache hold an entry
Had == [scan |-> scans # << >>, query |-> queries # << >>]

Mutations == {"PutItem", "DeleteItem", "UpdateItem", "BatchWriteItem", "TransactWriteItems"}

SeenOf(table, key) ==
  IF <<table, key>> \in DOMAIN seen THEN seen[<<table, key>>] ELSE NoRec

\* the reads of the query and the scan cache
Reads == {"Query", "Scan"}

\* what a handler returns: the stores as it leaves them (c), the store (d),
\* and the response (err, out)
Return(c, d, op, in, allowed, err, out) ==
  [c |-> c, db |-> d, op |-> op, in |-> in, allowed |-> allowed,
   err |-> IF c.panic THEN "panic" ELSE err, out |-> out]

\* the names of the remote calls a handler issued
CallNames(remote) == [i \in 1..Len(remote) |-> remote[i].call]

\* the call r takes place: the stores and the remote store after it
Stores(r) ==
  /\ items' = r.c.items
  /\ tableDesc' = r.c.tableDesc
  /\ queries' = r.c.queries
  /\ scans' = r.c.scans
  /\ db' = r.db
  /\ UNCHANGED <<allowedTables, pending, described>>
  /\ last' = [op |-> r.op, allowed |-> r.allowed, err |-> r.err,
              remote |-> CallNames(r.c.remote),
              seen |-> IF r.op = "GetItem" THEN SeenOf(r.in.TableName, r.in.Key)
                       ELSE IF r.op \in Reads THEN SeenOf(r.op, r.in)
                       ELSE NoRec,
              changed |-> r.db # db, had |-> Had]
  /\ seen' = IF r.op = "GetItem" /\ r.allowed /\ r.err = ""
             THEN (<<r.in.TableName, r.in.Key>> :> r.out) @@ seen
             ELSE IF r.op \in Reads /\ r.allowed /\ r.err = ""
             THEN (<<r.op, r.in>> :> r.out) @@ seen
             ELSE IF r.op \in Mutations THEN << >>
             ELSE seen

\* Cache.hits and Cache.miss are written by incHit and incMiss and read by
\* HitRatio alone, never by a handler.  The specification SpecHits follows
\* them (DoCounted), through MaxLookups lookups; the specifications of the
\* stores leave them out (Do): there they keep their initial value.
Do(r) == Stores(r) /\ UNCHANGED <<hits, miss>>

DoCounted(r) ==
  /\ r.c.hits + r.c.miss <= MaxLookups
  /\ Stores(r)
  /\ hits' = r.c.hits
  /\ miss' = r.c.miss

GetItemWithContext(st, table, key, dOk, rOk) ==
  LET in == [TableName |-> table, Key |-> key]
      s == schemaOf(st.c, table, dOk)
      k == itemKey(table, key, s.out)
      hit == getItem(s.c, k)
      got == StoreGet(st.db, table, key)
  IN  IF ~isAllowed(st.allowed, table)
      THEN Return(Called(st.c, "GetItem"), st.db, "GetItem", in, FALSE,
                  IF rOk THEN "" ELSE "RemoteErr", IF rOk THEN got ELSE Nil)
      ELSE IF s.err THEN Return(s.c, st.db, "GetItem", in, TRUE, "DescribeErr", Nil)
      ELSE IF writeItemKeyPanics(key, s.out)
           THEN Return(Panicked(s.c), st.db, "GetItem", in, TRUE, "panic", Nil)
      ELSE IF hit.ok
           THEN Return(log(incHit(s.c), IF hit.v = none THEN "returning empty cached"
                                        ELSE "returning cached"),
                       st.db, "GetItem", in, TRUE, "",
                       IF hit.v = none THEN Nil ELSE hit.v)
      ELSE IF ~rOk
           THEN Return(Called(incMiss(s.c), "GetItem"), st.db, "GetItem", in, TRUE, "RemoteErr", Nil)
      ELSE Return(setItem(log(Called(incMiss(s.c), "GetItem"), "caching"), k, got),
                  st.db, "GetItem", in, TRUE, "", got)

PutItemWithContext(st, table, item, dOk, rOk) ==
  LET in == [TableName |-> table, Item |-> item]
      s == schemaOf(st.c, table, dOk)
      k == itemKey(table, item, s.out)
      c1 == Called(s.c, "PutItem")
  IN  IF ~isAllowed(st.allowed, table)
      THEN Return(Called(st.c, "PutItem"), IF rOk THEN StorePut(st.db, table, item) ELSE st.db,
                  "PutItem", in, FALSE, IF rOk THEN "" ELSE "RemoteErr", Nil)
      ELSE IF s.err THEN Return(s.c, st.db, "PutItem", in, TRUE, "DescribeErr", Nil)
      ELSE IF writeItemKeyPanics(item, s.out)
           THEN Return(Panicked(s.c), st.db, "PutItem", in, TRUE, "panic", Nil)
      ELSE IF ~rOk THEN Return(c1, st.db, "PutItem", in, TRUE, "RemoteErr", Nil)
      ELSE Return(invalidate(setItem(log(c1, "caching put"), k, item), table, item, dOk),
                  StorePut(st.db, table, item), "PutItem", in, TRUE, "", Nil)

\* DeleteItemWithContext with line 235 as c.deleteItem(key): the entry is
\* evicted, no sentinel is stored
DeleteItemWithContext_Evict(st, table, key, rv, dOk, rOk) ==
  LET in == [TableName |-> table, Key |-> key, ReturnValues |-> rv]
      s == schemaOf(st.c, table, dOk)
      old == StoreGet(st.db, table, key)
      c1 == CalledWith(s.c, "DeleteItem", [ReturnValues |-> "ALL_OLD"])
      k == itemKey(table, key, s.out)
  IN  IF ~isAllowed(st.allowed, table)
      THEN Return(CalledWith(st.c, "DeleteItem", [ReturnValues |-> rv]),
                  IF rOk THEN StoreDelete(st.db, table, key) ELSE st.db,
                  "DeleteItem", in, FALSE, IF rOk THEN "" ELSE "RemoteErr",
                  IF rOk THEN DeleteAttributes(old, rv) ELSE Nil)
      ELSE IF s.err THEN Return(s.c, st.db, "DeleteItem", in, TRUE, "DescribeErr", Nil)
      ELSE IF ~rOk THEN Return(c1, st.db, "DeleteItem", in, TRUE, "RemoteErr", Nil)
      ELSE IF writeItemKeyPanics(key, s.out)
           THEN Return(Panicked(c1), StoreDelete(st.db, table, key), "DeleteItem", in, TRUE,
                       "panic", Nil)
      ELSE Return(invalidate(deleteItem(c1, k), table, old, dOk),
                  StoreDelete(st.db, table, key), "DeleteItem", in, TRUE, "", old)

\* rv is input.ReturnValues as the caller set it ("" for nil); the handler
\* sets it to ALL_OLD: out.Attributes is the item as it was, or the nil map
DeleteItemWithContext(st, table, key, rv, dOk, rOk) ==
  LET in == [TableName |-> table, Key |-> key, ReturnValues |-> rv]
      s == schemaOf(st.c, table, dOk)
      old == StoreGet(st.db, table, key)
      c1 == CalledWith(s.c, "DeleteItem", [ReturnValues |-> "ALL_OLD"])
      k == itemKey(table, key, s.out)
  IN  IF ~isAllowed(st.allowed, table)
      THEN Return(CalledWith(st.c, "DeleteItem", [ReturnValues |-> rv]),
                  IF rOk THEN StoreDelete(st.db, table, key) ELSE st.db,
                  "DeleteItem", in, FALSE, IF rOk THEN "" ELSE "RemoteErr",
                  IF rOk THEN DeleteAttributes(old, rv) ELSE Nil)
      ELSE IF s.err THEN Return(s.c, st.db, "DeleteItem", in, TRUE, "DescribeErr", Nil)
      ELSE IF ~rOk THEN Return(c1, st.db, "DeleteItem", in, TRUE, "RemoteErr", Nil)
      ELSE IF writeItemKeyPanics(key, s.out)
           THEN Return(Panicked(c1), StoreDelete(st.db, table, key), "DeleteItem", in, TRUE,
                       "panic", Nil)
      ELSE Return(log(invalidate(setItem(c1, k, none), table, old, dOk), "deleting cached"),
                  StoreDelete(st.db, table, key), "DeleteItem", in, TRUE, "", old)

\* UpdateItemWithContext with lines 272-274 in both branches: the returned
\* attributes are cached whatever ReturnValues asked for
UpdateItemWithContext_CacheGuess(st, table, key, upd, rv, dOk, pages, rOk) ==
  LET in == [TableName |-> table, Key |-> key, Update |-> upd, ReturnValues |-> rv]
      s == schemaOf(st.c, table, dOk)
      rv1 == IF rv = "" \/ rv = "NONE" THEN "ALL_NEW" ELSE rv
      pf == IF rv1 # "ALL_NEW"
            THEN prefetchRun(s.c, st.db, <<[table |-> table, key |-> key]>>, pages, dOk)
            ELSE [c |-> s.c, err |-> FALSE]
      old == StoreGet(st.db, table, key)
      new == ApplyUpdate(old, key, upd)
      attrs == UpdateAttributes(old, new, upd, rv1)
      c1 == CalledWith(pf.c, "UpdateItem", [ReturnValues |-> rv1])
      k == itemKey(table, key, s.out)
  IN  IF ~isAllowed(st.allowed, table)
      THEN Return(CalledWith(st.c, "UpdateItem", [ReturnValues |-> rv]),
                  IF rOk THEN StoreUpdate(st.db, table, key, upd) ELSE st.db,
                  "UpdateItem", in, FALSE, IF rOk THEN "" ELSE "RemoteErr",
                  IF rOk THEN UpdateAttributes(old, new, upd, rv) ELSE Nil)
      ELSE IF s.err THEN Return(s.c, st.db, "UpdateItem", in, TRUE, "DescribeErr", Nil)
      ELSE IF pf.err \/ pf.c.panic THEN Return(pf.c, st.db, "UpdateItem", in, TRUE, "RemoteErr", Nil)
      ELSE IF ~rOk THEN Return(c1, st.db, "UpdateItem", in, TRUE, "RemoteErr", Nil)
      ELSE IF writeItemKeyPanics(key, s.out)
           THEN Return(Panicked(c1), StoreUpdate(st.db, table, key, upd), "UpdateItem", in,
                       TRUE, "panic", Nil)
      ELSE Return(invalidate(setItem(c1, k, attrs), table, attrs, dOk),
                  StoreUpdate(st.db, table, key, upd), "UpdateItem", in, TRUE, "", attrs)

\* rv is input.ReturnValues as the caller set it ("" for nil); pages is the
\* prefetch read's outcome
UpdateItemWithContext(st, table, key, upd, rv, dOk, pages, rOk) ==
  LET in == [TableName |-> table, Key |-> key, Update |-> upd, ReturnValues |-> rv]
      s == schemaOf(st.c, table, dOk)
      rv1 == IF rv = "" \/ rv = "NONE" THEN "ALL_NEW" ELSE rv
      pf == IF rv1 # "ALL_NEW"
            THEN prefetchRun(s.c, st.db, <<[table |-> table, key |-> key]>>, pages, dOk)
            ELSE [c |-> s.c, err |-> FALSE]
      old == StoreGet(st.db, table, key)
      new == ApplyUpdate(old, key, upd)
      attrs == UpdateAttributes(old, new, upd, rv1)
      c1 == CalledWith(pf.c, "UpdateItem", [ReturnValues |-> rv1])
      k == itemKey(table, key, s.out)
  IN  IF ~isAllowed(st.allowed, table)
      THEN Return(CalledWith(st.c, "UpdateItem", [ReturnValues |-> rv]),
                  IF rOk THEN StoreUpdate(st.db, table, key, upd) ELSE st.db,
                  "UpdateItem", in, FALSE, IF rOk THEN "" ELSE "RemoteErr",
                  IF rOk THEN UpdateAttributes(old, new, upd, rv) ELSE Nil)
      ELSE IF s.err THEN Return(s.c, st.db, "UpdateItem", in, TRUE, "DescribeErr", Nil)
      ELSE IF pf.err \/ pf.c.panic THEN Return(pf.c, st.db, "UpdateItem", in, TRUE, "RemoteErr", Nil)
      ELSE IF ~rOk THEN Return(c1, st.db, "UpdateItem", in, TRUE, "RemoteErr", Nil)
      ELSE IF writeItemKeyPanics(key, s.out)
           THEN Return(Panicked(c1), StoreUpdate(st.db, table, key, upd), "UpdateItem", in,
                       TRUE, "panic", Nil)
      ELSE IF rv1 = "ALL_NEW"
           THEN Return(invalidate(setItem(log(c1, "cache updated"), k, attrs), table, attrs, dOk),
                       StoreUpdate(st.db, table, key, upd), "UpdateItem", in, TRUE, "", attrs)
           ELSE Return(invalidateRough(deleteItem(log(c1, "delete updated"), k), table, key, dOk),
                       StoreUpdate(st.db, table, key, upd), "UpdateItem", in, TRUE, "", attrs)

\* PurgeAll without line 58: the cached table descriptions are kept
PurgeAllStores_KeepsSchema(c) ==
  [c EXCEPT !.items = << >>, !.queries = << >>, !.scans = << >>]

\* lines 57-60: Clear() of each of the four stores
PurgeAllStores(c) ==
  [c EXCEPT !.items = << >>, !.tableDesc = << >>, !.queries = << >>, !.scans = << >>]

PurgeAll ==
  /\ items' = PurgeAllStores(Cache).items
  /\ tableDesc' = PurgeAllStores(Cache).tableDesc
  /\ queries' = PurgeAllStores(Cache).queries
  /\ scans' = PurgeAllStores(Cache).scans
  /\ seen' = << >>
  /\ last' = [op |-> "PurgeAll", allowed |-> TRUE, err |-> "", remote |-> << >>,
              seen |-> NoRec, changed |-> FALSE, had |-> Had]
  /\ UNCHANGED <<db, allowedTables, hits, miss, pending, described>>

Allow(table) ==
  /\ allowedTables' = allowedTables \cup {table}
  /\ last' = [op |-> "Allow", allowed |-> TRUE, err |-> "", remote |-> << >>,
              seen |-> NoRec, changed |-> FALSE, had |-> Had]
  /\ UNCHANGED <<db, items, tableDesc, queries, scans, hits, miss, pending, described, seen>>

(***************************************************************************)
(* BatchGetItemWithContext.  reqs is input.RequestItems in the order the   *)
(* handler's range visits it: a sequence of [table, Keys]; unproc is the   *)
(* set of [table, key] the store reports in UnprocessedKeys.               *)
(***************************************************************************)
RECURSIVE batchGetKeys(_, _, _, _)
\* lines 303-316: the cached items of one table (resp) and its misses, each
\* lookup counted
batchGetKeys(c, table, keys, schema) ==
  IF keys = << >> THEN [c |-> c, resp |-> << >>, newKeys |-> << >>]
  ELSE IF writeItemKeyPanics(Head(keys), schema)
       THEN [c |-> Panicked(c), resp |-> << >>, newKeys |-> << >>]
  ELSE LET hit == getItem(c, itemKey(table, Head(keys), schema))
           rest == batchGetKeys(IF hit.ok THEN incHit(log(c, "batch get cached"))
                                ELSE incMiss(log(c, "batch get NOT cached!!")),
                                table, Tail(keys), schema)
       IN  IF hit.ok
           THEN [c |-> rest.c,
                 resp |-> (IF hit.v # none THEN <<hit.v>> ELSE << >>) \o rest.resp,
                 newKeys |-> rest.newKeys]
           ELSE [c |-> rest.c, resp |-> rest.resp, newKeys |-> <<Head(keys)>> \o rest.newKeys]

RECURSIVE batchGetTables(_, _, _)
\* lines 290-327: fake.Responses (fake) and newReq, or the schema error
batchGetTables(c, reqs, dOk) ==
  IF reqs = << >> THEN [c |-> c, fake |-> << >>, newReq |-> << >>, err |-> FALSE]
  ELSE LET s == schemaOf(c, Head(reqs).table, dOk)
           ks == batchGetKeys(s.c, Head(reqs).table, Head(reqs).Keys, s.out)
           rest == batchGetTables(ks.c, Tail(reqs), dOk)
       IN  IF s.err THEN [c |-> s.c, fake |-> << >>, newReq |-> << >>, err |-> TRUE]
           ELSE IF ks.c.panic
                THEN [c |-> ks.c, fake |-> << >>, newReq |-> << >>, err |-> FALSE]
           ELSE [c |-> rest.c,
                 fake |-> (IF ks.resp # << >> THEN (Head(reqs).table :> ks.resp) ELSE << >>)
                          @@ rest.fake,
                 newReq |-> (IF ks.newKeys # << >>
                             THEN <<[table |-> Head(reqs).table, Keys |-> ks.newKeys]>>
                             ELSE << >>) \o rest.newReq,
                 err |-> rest.err]

RECURSIVE StoreBatchGetKeys(_, _, _, _)
\* the items the store returns for the keys of one table
StoreBatchGetKeys(d, table, keys, unproc) ==
  IF keys = << >> THEN << >>
  ELSE LET got == StoreGet(d, table, Head(keys))
       IN  (IF got = Nil \/ [table |-> table, key |-> Head(keys)] \in unproc
            THEN << >> ELSE <<got>>)
           \o StoreBatchGetKeys(d, table, Tail(keys), unproc)

RECURSIVE StoreBatchGet(_, _, _)
\* BatchGetItemOutput: Responses and UnprocessedKeys, table by table
StoreBatchGet(d, newReq, unproc) ==
  IF newReq = << >> THEN [Responses |-> << >>, UnprocessedKeys |-> << >>]
  ELSE LET t == Head(newReq).table
           resp == StoreBatchGetKeys(d, t, Head(newReq).Keys, unproc)
           un == SelectSeq(Head(newReq).Keys, LAMBDA k : [table |-> t, key |-> k] \in unproc)
           rest == StoreBatchGet(d, Tail(newReq), unproc)
       IN  [Responses |-> (IF resp # << >> THEN (t :> resp) ELSE << >>) @@ rest.Responses,
            UnprocessedKeys |-> (IF un # << >> THEN (t :> un) ELSE << >>)
                                @@ rest.UnprocessedKeys]

RECURSIVE batchGetCacheItems(_, _, _, _)
\* lines 343-347: every returned item of one table is cached
batchGetCacheItems(c, table, resp, dOk) ==
  IF resp = << >> THEN c
  ELSE batchGetCacheItems(
         setItem(log(c, "batch get caching"),
                 itemKey(table, Head(resp), schemaOf(c, table, dOk).out), Head(resp)),
         table, Tail(resp), dOk)

RECURSIVE batchGetCacheResponses(_, _, _, _)
\* lines 342-348
batchGetCacheResponses(c, newReq, out, dOk) ==
  IF newReq = << >> THEN c
  ELSE batchGetCacheResponses(
         batchGetCacheItems(c, Head(newReq).table, Lookup(out.Responses, Head(newReq).table), dOk),
         Tail(newReq), out, dOk)

RECURSIVE batchGetCacheEmpty(_, _, _, _, _)
\* lines 352-368: a key neither returned nor unprocessed is cached as none
batchGetCacheEmpty(c, table, keys, out, dOk) ==
  IF keys = << >> THEN c
  ELSE LET k == Head(keys)
           resp == Lookup(out.Responses, table)
           un == Lookup(out.UnprocessedKeys, table)
           skip == \/ \E i \in 1..Len(resp) : keyEqLoose(k, resp[i])
                   \/ \E i \in 1..Len(un) : keyEq(k, un[i])
           c1 == IF skip THEN c
                 ELSE log(setItem(c, itemKey(table, k, schemaOf(c, table, dOk).out), none),
                          "batch get, caching empty:")
       IN  batchGetCacheEmpty(c1, table, Tail(keys), out, dOk)

RECURSIVE batchGetCacheMissing(_, _, _, _)
\* lines 350-369
batchGetCacheMissing(c, newReq, out, dOk) ==
  IF newReq = << >> THEN c
  ELSE batchGetCacheMissing(
         batchGetCacheEmpty(c, Head(newReq).table, Head(newReq).Keys, out, dOk),
         Tail(newReq), out, dOk)

\* lines 371-378: the cached items are appended to the store's responses
batchGetMerge(out, fake) ==
  IF DOMAIN fake = {} THEN out
  ELSE [out EXCEPT !.Responses =
          [t \in DOMAIN out.Responses \cup DOMAIN fake |->
             Lookup(out.Responses, t) \o Lookup(fake, t)]]

BatchGetItemWithContext(st, reqs, dOk, rOk, unproc) ==
  LET in == [RequestItems |-> reqs]
      l1 == batchGetTables(st.c, reqs, dOk)
      c1 == CalledWith(l1.c, "BatchGetItem", l1.newReq)
      out == StoreBatchGet(st.db, l1.newReq, unproc)
      c2 == batchGetCacheMissing(batchGetCacheResponses(c1, l1.newReq, out, dOk),
                                 l1.newReq, out, dOk)
  IN  IF l1.err THEN Return(l1.c, st.db, "BatchGetItem", in, TRUE, "DescribeErr", Nil)
      ELSE IF l1.c.panic THEN Return(l1.c, st.db, "BatchGetItem", in, TRUE, "panic", Nil)
      ELSE IF l1.newReq = << >>
           THEN Return(l1.c, st.db, "BatchGetItem", in, TRUE, "",
                       [Responses |-> l1.fake, UnprocessedKeys |-> << >>])
      ELSE IF ~rOk THEN Return(c1, st.db, "BatchGetItem", in, TRUE, "RemoteErr", Nil)
      ELSE Return(c2, st.db, "BatchGetItem", in, TRUE, "", batchGetMerge(out, l1.fake))

(***************************************************************************)
(* BatchWriteItemWithContext.  reqs is input.RequestItems in the order the *)
(* handler's range visits it: a sequence of [table, reqs], each request a  *)
(* [DeleteRequest |-> [Key]] or a [PutRequest |-> [Item]]; unproc is the   *)
(* set of [table, req] the store reports in UnprocessedItems.              *)
(***************************************************************************)
IsDelete(req) == "DeleteRequest" \in DOMAIN req
IsPut(req) == "PutRequest" \in DOMAIN req

RECURSIVE batchWritePrefetchKeys(_, _)
\* lines 383-389: prefetch.add for every delete of one table
batchWritePrefetchKeys(table, reqs) ==
  IF reqs = << >> THEN << >>
  ELSE (IF IsDelete(Head(reqs))
        THEN <<[table |-> table, key |-> Head(reqs).DeleteRequest.Key]>> ELSE << >>)
       \o batchWritePrefetchKeys(table, Tail(reqs))

RECURSIVE batchWritePrefetch(_)
batchWritePrefetch(reqs) ==
  IF reqs = << >> THEN << >>
  ELSE batchWritePrefetchKeys(Head(reqs).table, Head(reqs).reqs) \o batchWritePrefetch(Tail(reqs))

RECURSIVE StoreBatchWriteReqs(_, _, _, _)
\* the store applies the requests it does not report as unprocessed
StoreBatchWriteReqs(d, table, reqs, unproc) ==
  IF reqs = << >> THEN d
  ELSE LET r == Head(reqs)
           d1 == IF [table |-> table, req |-> r] \in unproc THEN d
                 ELSE IF IsDelete(r) THEN StoreDelete(d, table, r.DeleteRequest.Key)
                 ELSE StorePut(d, table, r.PutRequest.Item)
       IN  StoreBatchWriteReqs(d1, table, Tail(reqs), unproc)

RECURSIVE StoreBatchWrite(_, _, _)
StoreBatchWrite(d, reqs, unproc) ==
  IF reqs = << >> THEN d
  ELSE StoreBatchWrite(StoreBatchWriteReqs(d, Head(reqs).table, Head(reqs).reqs, unproc),
                       Tail(reqs), unproc)

\* out.UnprocessedItems[table]
UnprocessedOf(table, unproc) == {u.req : u \in {x \in unproc : x.table = table}}

\* lines 406-418: a delete request
batchWriteDelete(c, table, req, schema, unprocessed, dOk) ==
  IF \E u \in unprocessed : IsDelete(u) /\ keyEq(u.DeleteRequest.Key, req.DeleteRequest.Key)
  THEN c
  ELSE IF c.panic \/ writeItemKeyPanics(req.DeleteRequest.Key, schema) THEN Panicked(c)
  ELSE invalidateRough(setItem(log(c, "batch delete"),
                               itemKey(table, req.DeleteRequest.Key, schema), none),
                       table, req.DeleteRequest.Key, dOk)

\* lines 419-432: a put request
batchWritePut(c, table, req, schema, unprocessed, dOk) ==
  IF \E u \in unprocessed : IsPut(u) /\ keyEq(u.PutRequest.Item, req.PutRequest.Item)
  THEN c
  ELSE IF c.panic \/ writeItemKeyPanics(req.PutRequest.Item, schema) THEN Panicked(c)
  ELSE invalidate(setItem(log(c, "batch put"),
                          itemKey(table, req.PutRequest.Item, schema), req.PutRequest.Item),
                  table, req.PutRequest.Item, dOk)

RECURSIVE batchWriteReqs(_, _, _, _, _, _)
\* lines 405-433
batchWriteReqs(c, table, reqs, schema, unprocessed, dOk) ==
  IF reqs = << >> THEN c
  ELSE LET c1 == IF IsDelete(Head(reqs))
                 THEN batchWriteDelete(c, table, Head(reqs), schema, unprocessed, dOk)
                 ELSE IF IsPut(Head(reqs))
                      THEN batchWritePut(c, table, Head(reqs), schema, unprocessed, dOk)
                      ELSE c
       IN  batchWriteReqs(c1, table, Tail(reqs), schema, unprocessed, dOk)

RECURSIVE batchWriteTables(_, _, _, _)
\* lines 398-434: the loop ends at the first table whose schema fails
batchWriteTables(c, reqs, unproc, dOk) ==
  IF reqs = << >> THEN [c |-> c, err |-> FALSE]
  ELSE LET s == schemaOf(c, Head(reqs).table, dOk)
       IN  IF c.panic THEN [c |-> c, err |-> FALSE]
           ELSE IF s.err THEN [c |-> s.c, err |-> TRUE]
           ELSE batchWriteTables(
                  batchWriteReqs(s.c, Head(reqs).table, Head(reqs).reqs, s.out,
                                 UnprocessedOf(Head(reqs).table, unproc), dOk),
                  Tail(reqs), unproc, dOk)

BatchWriteItemWithContext(st, reqs, dOk, pages, rOk, unproc) ==
  LET in == [RequestItems |-> reqs]
      pf == prefetchRun(st.c, st.db, batchWritePrefetch(reqs), pages, dOk)
      c1 == Called(pf.c, "BatchWriteItem")
      d1 == StoreBatchWrite(st.db, reqs, unproc)
      out == [UnprocessedItems |-> unproc]
      l2 == batchWriteTables(c1, reqs, unproc, dOk)
  IN  IF pf.err \/ pf.c.panic THEN Return(pf.c, st.db, "BatchWriteItem", in, TRUE, "RemoteErr", Nil)
      ELSE IF ~rOk THEN Return(c1, st.db, "BatchWriteItem", in, TRUE, "RemoteErr", Nil)
      ELSE Return(l2.c, d1, "BatchWriteItem", in, TRUE,
                  IF l2.err THEN "DescribeErr" ELSE "", out)

(***************************************************************************)
(* TransactWriteItemsWithContext.  titems is input.TransactItems: each a   *)
(* [Put |-> [TableName, Item]], a [Delete |-> [TableName, Key]] or an      *)
(* [Update |-> [TableName, Key, Update]].                                  *)
(***************************************************************************)
RECURSIVE transactPrefetch(_)
\* lines 440-447
transactPrefetch(titems) ==
  IF titems = << >> THEN << >>
  ELSE LET i == Head(titems)
       IN  (IF "Update" \in DOMAIN i
            THEN <<[table |-> i.Update.TableName, key |-> i.Update.Key]>> ELSE << >>)
           \o (IF "Delete" \in DOMAIN i
               THEN <<[table |-> i.Delete.TableName, key |-> i.Delete.Key]>> ELSE << >>)
           \o transactPrefetch(Tail(titems))

RECURSIVE StoreTransactWrite(_, _)
StoreTransactWrite(d, titems) ==
  IF titems = << >> THEN d
  ELSE LET i == Head(titems)
           d1 == CASE "Put" \in DOMAIN i -> StorePut(d, i.Put.TableName, i.Put.Item)
                   [] "Delete" \in DOMAIN i -> StoreDelete(d, i.Delete.TableName, i.Delete.Key)
                   [] "Update" \in DOMAIN i ->
                        StoreUpdate(d, i.Update.TableName, i.Update.Key, i.Update.Update)
                   [] OTHER -> d
       IN  StoreTransactWrite(d1, Tail(titems))

\* lines 458-466
transactPut(c, put, dOk) ==
  LET s == schemaOf(c, put.TableName, dOk)
  IN  IF s.err THEN [c |-> s.c, err |-> TRUE]
      ELSE IF writeItemKeyPanics(put.Item, s.out) THEN [c |-> Panicked(s.c), err |-> FALSE]
      ELSE [c |-> invalidate(setItem(log(s.c, "transact put"),
                                     itemKey(put.TableName, put.Item, s.out), put.Item),
                             put.TableName, put.Item, dOk),
            err |-> FALSE]

\* lines 467-475
transactDelete(c, del, dOk) ==
  LET s == schemaOf(c, del.TableName, dOk)
  IN  IF s.err THEN [c |-> s.c, err |-> TRUE]
      ELSE IF writeItemKeyPanics(del.Key, s.out) THEN [c |-> Panicked(s.c), err |-> FALSE]
      ELSE [c |-> invalidateRough(setItem(log(s.c, "transact delete"),
                                          itemKey(del.TableName, del.Key, s.out), none),
                                  del.TableName, del.Key, dOk),
            err |-> FALSE]

\* lines 476-484
transactUpdate(c, upd, dOk) ==
  LET s == schemaOf(c, upd.TableName, dOk)
  IN  IF s.err THEN [c |-> s.c, err |-> TRUE]
      ELSE IF writeItemKeyPanics(upd.Key, s.out) THEN [c |-> Panicked(s.c), err |-> FALSE]
      ELSE [c |-> invalidateRough(deleteItem(log(s.c, "transact update"),
                                             itemKey(upd.TableName, upd.Key, s.out)),
                                  upd.TableName, upd.Key, dOk),
            err |-> FALSE]

RECURSIVE transactItems(_, _, _)
\* lines 456-486: the loop ends at the first item whose schema fails
transactItems(c, titems, dOk) ==
  IF titems = << >> THEN [c |-> c, err |-> FALSE]
  ELSE LET i == Head(titems)
           r == CASE "Put" \in DOMAIN i -> transactPut(c, i.Put, dOk)
                  [] "Delete" \in DOMAIN i -> transactDelete(c, i.Delete, dOk)
                  [] "Update" \in DOMAIN i -> transactUpdate(c, i.Update, dOk)
                  [] OTHER -> [c |-> c, err |-> FALSE]
       IN  IF r.err \/ r.c.panic THEN r ELSE transactItems(r.c, Tail(titems), dOk)

TransactWriteItemsWithContext(st, titems, dOk, pages, rOk) ==
  LET in == [TransactItems |-> titems]
      pf == prefetchRun(st.c, st.db, transactPrefetch(titems), pages, dOk)
      c1 == Called(pf.c, "TransactWriteItems")
      l2 == transactItems(c1, titems, dOk)
  IN  IF pf.err \/ pf.c.panic
      THEN Return(pf.c, st.db, "TransactWriteItems", in, TRUE, "RemoteErr", Nil)
      ELSE IF ~rOk THEN Return(c1, st.db, "TransactWriteItems", in, TRUE, "RemoteErr", Nil)
      ELSE Return(l2.c, StoreTransactWrite(st.db, titems), "TransactWriteItems", in, TRUE,
                  IF l2.err THEN "DescribeErr" ELSE "", Nil)

(***************************************************************************)
(* QueryWithContext and ScanWithContext                                    *)
(***************************************************************************)
\* lines 508-513: the group a query is cached under
queryGroup(input, schema) ==
  IF Len(schema) = 1
  THEN tableHashKey(input.TableName, Nil, input.IndexName)
  ELSE tableHashKey(input.TableName,
                    input.KeyConditions[schema[1]].AttributeValueList[1], input.IndexName)

\* QueryWithContext with lines 522-524 after line 526: the result is stored
\* before the error of the remote call is looked at
QueryWithContext_CacheFirst(st, input, dOk, rOk) ==
  LET s == IF input.IndexName = "" THEN schemaOf(st.c, input.TableName, dOk)
           ELSE schemaOfIndex(st.c, input.TableName, input.IndexName, dOk)
      tkey == queryGroup(input, s.out)
      key == queryKey(input, s.out)
      hit == getQuery(s.c, tkey, key)
      out == StoreQuery(st.db, input)
      c1 == Called(incMiss(s.c), "Query")
  IN  IF ~isAllowed(st.allowed, input.TableName)
      THEN Return(Called(st.c, "Query"), st.db, "Query", input, FALSE,
                  IF rOk THEN "" ELSE "RemoteErr", IF rOk THEN out ELSE Nil)
      ELSE IF s.err THEN Return(s.c, st.db, "Query", input, TRUE, "DescribeErr", Nil)
      ELSE IF s.c.panic THEN Return(s.c, st.db, "Query", input, TRUE, "panic", Nil)
      ELSE IF queryKeyPanics(input, s.out)
           THEN Return(Panicked(s.c), st.db, "Query", input, TRUE, "panic", Nil)
      ELSE IF hit.ok THEN Return(incHit(s.c), st.db, "Query", input, TRUE, "", hit.v)
      ELSE IF ~rOk
           THEN Return(setQuery(c1, tkey, key, Nil), st.db, "Query", input, TRUE, "RemoteErr", Nil)
      ELSE Return(setQuery(c1, tkey, key, out), st.db, "Query", input, TRUE, "", out)

QueryWithContext(st, input, dOk, rOk) ==
  LET s == IF input.IndexName = "" THEN schemaOf(st.c, input.TableName, dOk)
           ELSE schemaOfIndex(st.c, input.TableName, input.IndexName, dOk)
      tkey == queryGroup(input, s.out)
      key == queryKey(input, s.out)
      hit == getQuery(s.c, tkey, key)
      out == StoreQuery(st.db, input)
      c1 == Called(incMiss(s.c), "Query")
  IN  IF ~isAllowed(st.allowed, input.TableName)
      THEN Return(Called(st.c, "Query"), st.db, "Query", input, FALSE,
                  IF rOk THEN "" ELSE "RemoteErr", IF rOk THEN out ELSE Nil)
      ELSE IF s.err THEN Return(s.c, st.db, "Query", input, TRUE, "DescribeErr", Nil)
      ELSE IF s.c.panic THEN Return(s.c, st.db, "Query", input, TRUE, "panic", Nil)
      ELSE IF queryKeyPanics(input, s.out)
           THEN Return(Panicked(s.c), st.db, "Query", input, TRUE, "panic", Nil)
      ELSE IF hit.ok
           THEN Return(incHit(log(s.c, "cached query:")), st.db, "Query", input, TRUE, "", hit.v)
      ELSE IF ~rOk THEN Return(c1, st.db, "Query", input, TRUE, "RemoteErr", Nil)
      ELSE Return(setQuery(log(c1, "saving query:"), tkey, key, out), st.db, "Query", input,
                  TRUE, "", out)

ScanWithContext(st, input, dOk, rOk) ==
  LET s == schemaOf(st.c, input.TableName, dOk)
      key == scanKey(input, s.out)
      hit == getScan(s.c, input.TableName, key)
      out == StoreScan(st.db, input)
      c1 == Called(s.c, "Scan")
  IN  IF ~isAllowed(st.allowed, input.TableName)
      THEN Return(Called(st.c, "Scan"), st.db, "Scan", input, FALSE,
                  IF rOk THEN "" ELSE "RemoteErr", IF rOk THEN out ELSE Nil)
      ELSE IF s.err THEN Return(s.c, st.db, "Scan", input, TRUE, "DescribeErr", Nil)
      ELSE IF scanKeyPanics(input, s.out)
           THEN Return(Panicked(s.c), st.db, "Scan", input, TRUE, "panic", Nil)
      ELSE IF hit.ok
           THEN Return(incHit(log(s.c, "returning cached scan")), st.db, "Scan", input, TRUE,
                       "", hit.v)
      ELSE IF ~rOk THEN Return(c1, st.db, "Scan", input, TRUE, "RemoteErr", Nil)
      ELSE Return(setScan(incMiss(log(c1, "caching scan")), input.TableName, key, out),
                  st.db, "Scan", input, TRUE, "", out)

(***************************************************************************)
(* The state after NewWithDB, and the requests the callers make.           *)
(***************************************************************************)
Init ==
  /\ db = [t \in Tables |-> {}]
  /\ items = << >>
  /\ tableDesc = << >>
  /\ queries = << >>
  /\ scans = << >>
  /\ allowedTables = {}
  /\ hits = 0
  /\ miss = 0
  /\ pending = [caller \in Callers |-> Idle]
  /\ described = [t \in Tables |-> 0]
  /\ seen = << >>
  /\ last = [op |-> "New", allowed |-> TRUE, err |-> "", remote |-> << >>,
             seen |-> NoRec, changed |-> FALSE, had |-> [scan |-> FALSE, query |-> FALSE]]

\* two keys of T2 that differ in both attributes and whose values hold the
\* separators writeItemKey writes
Key1 == [h |-> S("x/r:1"), r |-> S("2")]
Key2 == [h |-> S("x"), r |-> S("1/r:2")]
ItemKeys == {Key1, Key2}

\* the items over a set of keys: the key alone, or with the attribute a
ItemsOver(keys) == keys \cup {[a |-> S(v)] @@ k : k \in keys, v \in AVals}

Updates == {Nil} \cup {[a |-> S(v)] : v \in AVals}

ReturnValues == {"", "NONE", "ALL_NEW", "ALL_OLD", "UPDATED_NEW"}

\* the ReturnValues settings of a DeleteItem
DeleteReturnValues == {"", "ALL_OLD"}

\* the write requests of a batch: deletes of keys and puts of items
WriteRequests(keys, itms) ==
  {[DeleteRequest |-> [Key |-> k]] : k \in keys}
  \cup {[PutRequest |-> [Item |-> i]] : i \in itms}

WriteKey(table, req) ==
  IF IsDelete(req) THEN req.DeleteRequest.Key ELSE KeyOf(table, req.PutRequest.Item)

\* the items of a transaction on table: puts of items, deletes and updates
\* of keys
TransactRequests(table, keys, itms, upds) ==
  {[Put |-> [TableName |-> table, Item |-> i]] : i \in itms}
  \cup {[Delete |-> [TableName |-> table, Key |-> k]] : k \in keys}
  \cup {[Update |-> [TableName |-> table, Key |-> k, Update |-> u]] : k \in keys, u \in upds}

TransactKey(table, i) ==
  CASE "Put" \in DOMAIN i -> KeyOf(table, i.Put.Item)
    [] "Delete" \in DOMAIN i -> i.Delete.Key
    [] OTHER -> i.Update.Key

\* the tables a transaction names
transactTables(titems) ==
  [n \in 1..Len(titems) |->
     [table |-> CASE "Put" \in DOMAIN titems[n] -> titems[n].Put.TableName
                  [] "Delete" \in DOMAIN titems[n] -> titems[n].Delete.TableName
                  [] OTHER -> titems[n].Update.TableName]]

\* the store rejects a batch or a transaction that names an item twice
DistinctKeys(keys) ==
  \A i, j \in 1..Len(keys) : i # j => keys[i] # keys[j]

BatchGets(table, keys) ==
  {<<[table |-> table, Keys |-> ks]>> : ks \in SeqsUpTo(keys, MaxBatch)}

BatchWrites(table, keys, itms) ==
  {<<[table |-> table, reqs |-> rs]>> :
     rs \in {q \in SeqsUpTo(WriteRequests(keys, itms), MaxBatch) :
               DistinctKeys([n \in 1..Len(q) |-> WriteKey(table, q[n])])}}

Transacts(table, keys, itms, upds) ==
  {q \in SeqsUpTo(TransactRequests(table, keys, itms, upds), MaxBatch) :
     DistinctKeys([n \in 1..Len(q) |-> TransactKey(table, q[n])])}

(***************************************************************************)
(* The actions: a handler called with a request and an outcome of its      *)
(* remote calls.  An outcome that the call cannot tell from another (a     *)
(* DescribeTable failure when the description is cached, a failure after   *)
(* an earlier one) is left out.                                            *)
(***************************************************************************)
\* the outcomes of a call that touches tables and prefetches npf keys: at
\* most one remote call fails; DescribeTable is called, and so can fail, only
\* while a description is not cached
Outcomes(tables, npf) ==
  {o \in [dOk : BOOLEAN, rOk : BOOLEAN, pages : 0..npf] :
     /\ o.dOk \/ \E t \in tables : t \notin DOMAIN tableDesc
     /\ o.dOk \/ (o.rOk /\ o.pages = npf)
     /\ o.rOk \/ o.pages = npf}

GetItem(table, key) ==
  \E o \in Outcomes({table}, 0) : Do(GetItemWithContext(Now, table, key, o.dOk, o.rOk))

PutItem(table, item) ==
  \E o \in Outcomes({table}, 0) : Do(PutItemWithContext(Now, table, item, o.dOk, o.rOk))

DeleteItem(table, key) ==
  \E rv \in DeleteReturnValues, o \in Outcomes({table}, 0) :
    Do(DeleteItemWithContext(Now, table, key, rv, o.dOk, o.rOk))

UpdateItem(table, key, upd, rv) ==
  \E o \in Outcomes({table}, 1) :
    Do(UpdateItemWithContext(Now, table, key, upd, rv, o.dOk, o.pages, o.rOk))

\* unproc is what the store leaves unprocessed when it answers
BatchGetItem(reqs, unproc) ==
  \E o \in Outcomes({reqs[i].table : i \in 1..Len(reqs)}, 0) :
    Do(BatchGetItemWithContext(Now, reqs, o.dOk, o.rOk, IF o.rOk THEN unproc ELSE {}))

BatchWriteItem(reqs, unproc) ==
  \E o \in Outcomes({reqs[i].table : i \in 1..Len(reqs)}, Len(batchWritePrefetch(reqs))) :
    Do(BatchWriteItemWithContext(Now, reqs, o.dOk, o.pages, o.rOk, IF o.rOk THEN unproc ELSE {}))

TransactWriteItems(titems) ==
  \E o \in Outcomes({r.table : r \in Range(transactTables(titems))},
                    Len(transactPrefetch(titems))) :
    Do(TransactWriteItemsWithContext(Now, titems, o.dOk, o.pages, o.rOk))

Query(input) ==
  \E o \in Outcomes({input.TableName}, 0) : Do(QueryWithContext(Now, input, o.dOk, o.rOk))

Scan(input) ==
  \E o \in Outcomes({input.TableName}, 0) : Do(ScanWithContext(Now, input, o.dOk, o.rOk))

(***************************************************************************)
(* Spec: the item cache of T2.                                             *)
(***************************************************************************)
Next ==
  \/ \E k \in ItemKeys : GetItem("T2", k)
  \/ \E i \in ItemsOver(ItemKeys) : PutItem("T2", i)
  \/ \E k \in ItemKeys : DeleteItem("T2", k)
  \/ \E k \in ItemKeys, u \in Updates, rv \in ReturnValues : UpdateItem("T2", k, u, rv)
  \/ \E reqs \in BatchGets("T2", ItemKeys) :
       \E unproc \in SUBSET {[table |-> "T2", key |-> k] : k \in Range(reqs[1].Keys)} :
         BatchGetItem(reqs, unproc)
  \/ \E reqs \in BatchWrites("T2", ItemKeys, ItemsOver(ItemKeys)) :
       \E unproc \in SUBSET {[table |-> "T2", req |-> r] : r \in Range(reqs[1].reqs)} :
         BatchWriteItem(reqs, unproc)
  \/ \E titems \in Transacts("T2", ItemKeys, ItemsOver(ItemKeys), Updates) : TransactWriteItems(titems)
  \/ PurgeAll

Spec == Init /\ [][Next]_vars

\* SpecReread: the point reads of T2, repeated, with the single-item
\* mutations and PurgeAll between them
NextReread ==
  \/ \E k \in ItemKeys : GetItem("T2", k)
  \/ \E i \in ItemsOver(ItemKeys) : PutItem("T2", i)
  \/ \E k \in ItemKeys : DeleteItem("T2", k)
  \/ \E reqs \in BatchGets("T2", ItemKeys) : BatchGetItem(reqs, {})
  \/ PurgeAll

SpecReread == Init /\ [][NextReread]_vars

\* the remote calls named call that a handler's return r issued
CallsOf(r, call) == SelectSeq(r.c.remote, LAMBDA x : x.call = call)

\* the cache key of a key of T2
T2Key(k) == itemKey("T2", k, DescribeTable("T2").KeySchema)

\* C1: in a sequential execution whose writes all go through the Cache,
\* every GetItem that succeeds returns for its key the item, or the absence
\* of an item, that the store holds for that key at that moment.
C1_GetItemCoherent ==
  \A k \in ItemKeys :
    LET r == GetItemWithContext(Now, "T2", k, TRUE, TRUE)
    IN  r.err = "" => r.out = StoreGet(db, "T2", k)

\* C4: a GetItem on a cached table issues at most one remote GetItem call;
\* once a GetItem of a key has succeeded, and until a mutation or a PurgeAll,
\* a GetItem of the same key issues no remote call, whatever the store would
\* answer, and returns the value the earlier call returned.
C4_ReadIdempotence ==
  /\ (last.op = "GetItem" /\ last.allowed)
       => Len(SelectSeq(last.remote, LAMBDA x : x = "GetItem")) <= 1
  /\ \A k \in ItemKeys :
       <<"T2", k>> \in DOMAIN seen =>
         \A dOk \in BOOLEAN, rOk \in BOOLEAN :
           LET r == GetItemWithContext(Now, "T2", k, dOk, rOk)
           IN  r.err = "" /\ r.c.remote = << >> /\ r.out = seen[<<"T2", k>>]

\* a second GetItem of a key, served from the cache
C4_SecondRead ==
  /\ last.op = "GetItem" /\ last.err = ""
  /\ last.seen # NoRec
  /\ last.remote = << >>

\* C5: a GetItem of a key the store reports as nonexistent stores the Absent
\* sentinel (none) for the key; a following GetItem of the key returns no
\* item without a remote call; a following successful PutItem of the key
\* replaces the entry, and the next GetItem returns the put item without a
\* remote call.
C5_NegativeCaching ==
  \A k \in ItemKeys :
    LET r1 == GetItemWithContext(Now, "T2", k, TRUE, TRUE)
        s1 == After(Now, r1)
        r2 == GetItemWithContext(s1, "T2", k, TRUE, TRUE)
    IN  (r1.err = "" /\ CallsOf(r1, "GetItem") # << >> /\ r1.out = Nil) =>
          /\ getItem(r1.c, T2Key(k)) = [v |-> none, ok |-> TRUE]
          /\ r2.err = "" /\ r2.out = Nil /\ r2.c.remote = << >>
          /\ \A i \in ItemsOver({k}) :
               LET r3 == PutItemWithContext(s1, "T2", i, TRUE, TRUE)
                   r4 == GetItemWithContext(After(s1, r3), "T2", k, TRUE, TRUE)
               IN  r3.err = "" => r4.err = "" /\ r4.out = i /\ r4.c.remote = << >>

(***************************************************************************)
(* SpecBatchGet: point reads and batch reads of three keys of T2 with      *)
(* distinct cache keys.                                                    *)
(***************************************************************************)
BatchKeys ==
  {[h |-> S("x"), r |-> S("1")], [h |-> S("x"), r |-> S("2")], [h |-> S("y"), r |-> S("1")]}

NextBatchGet ==
  \/ \E k \in BatchKeys : GetItem("T2", k)
  \/ \E k \in BatchKeys : PutItem("T2", k)
  \/ \E k \in BatchKeys : DeleteItem("T2", k)
  \/ \E reqs \in BatchGets("T2", BatchKeys) :
       \E unproc \in SUBSET {[table |-> "T2", key |-> k] : k \in Range(reqs[1].Keys)} :
         BatchGetItem(reqs, unproc)

SpecBatchGet == Init /\ [][NextBatchGet]_vars

\* the keys the remote BatchGetItem calls of a return asked for
BatchGetAsked(r) ==
  UNION {UNION {Range(q.Keys) : q \in Range(c.arg)} : c \in Range(CallsOf(r, "BatchGetItem"))}

\* C6: a BatchGetItem of keys that are cached with an item (A), cached as
\* absent (B) or not cached (C) asks the store for exactly the keys C; its
\* result holds the item of every A, no entry at all for any B, and the
\* item of every C the store holds.
C6_BatchGetCorrect ==
  \A ks \in SeqsUpTo(BatchKeys, 3) :
    LET r == BatchGetItemWithContext(Now, <<[table |-> "T2", Keys |-> ks]>>, TRUE, TRUE, {})
        hit(k) == getItem(Cache, T2Key(k))
        A == {k \in Range(ks) : hit(k).ok /\ hit(k).v \notin {none, Nil}}
        B == {k \in Range(ks) : hit(k).ok /\ hit(k).v \in {none, Nil}}
        C == {k \in Range(ks) : ~hit(k).ok}
        result == IF r.err = "" THEN Lookup(r.out.Responses, "T2") ELSE << >>
    IN  r.err = "" =>
          /\ BatchGetAsked(r) = C
          /\ \A k \in A : \E n \in 1..Len(result) : result[n] = hit(k).v
          /\ \A n \in 1..Len(result) :
               result[n] # Nil /\ KeyOf("T2", result[n]) \notin B
          /\ \A k \in C : StoreGet(db, "T2", k) # Nil =>
               \E n \in 1..Len(result) : result[n] = StoreGet(db, "T2", k)

(***************************************************************************)
(* SpecQuery: queries and scans of T2 (base table, local index l, global   *)
(* index g) and every mutation of its items.                               *)
(***************************************************************************)
QueryKeys == {[h |-> S("x"), r |-> S("1")]}

QueryOn(table, index, attr, v) ==
  [TableName |-> table, IndexName |-> index,
   KeyConditions |-> (attr :> [ComparisonOperator |-> "EQ", AttributeValueList |-> <<S(v)>>])]

Queries ==
  {QueryOn("T2", idx, "h", "x") : idx \in {"", "l"}}
  \cup {QueryOn("T2", "g", "a", v) : v \in AVals}

Scans == {[TableName |-> "T2", IndexName |-> ""]}

NextQuery ==
  \/ \E i \in ItemsOver(QueryKeys) : PutItem("T2", i)
  \/ \E k \in QueryKeys : DeleteItem("T2", k)
  \/ \E k \in QueryKeys, u \in Updates, rv \in ReturnValues : UpdateItem("T2", k, u, rv)
  \/ \E reqs \in BatchWrites("T2", QueryKeys, ItemsOver(QueryKeys)) :
       \E unproc \in SUBSET {[table |-> "T2", req |-> r] : r \in Range(reqs[1].reqs)} :
         BatchWriteItem(reqs, unproc)
  \/ \E titems \in Transacts("T2", QueryKeys, ItemsOver(QueryKeys), Updates) : TransactWriteItems(titems)
  \/ \E input \in Queries : Query(input)
  \/ \E input \in Scans : Scan(input)

SpecQuery == Init /\ [][NextQuery]_vars

\* SpecServed: the single-item mutations of T2 with its queries cached
NextServed ==
  \/ \E i \in ItemsOver(QueryKeys) : PutItem("T2", i)
  \/ \E k \in QueryKeys : DeleteItem("T2", k)
  \/ \E k \in QueryKeys, u \in Updates, rv \in {"", "ALL_OLD"} : UpdateItem("T2", k, u, rv)
  \/ \E input \in Queries : Query(input)

SpecServed == Init /\ [][NextServed]_vars

\* SpecRepeat: the queries and scans of T2, repeated, with puts between them
NextRepeat ==
  \/ \E i \in ItemsOver(QueryKeys) : PutItem("T2", i)
  \/ \E input \in Queries : Query(input)
  \/ \E input \in Scans : Scan(input)

SpecRepeat == Init /\ [][NextRepeat]_vars

\* C2: after a successful mutation through the Cache, no entry of the query
\* cache (base table, local index, global index) holds a result other than
\* the one the store now returns for the same query.
C2_NoStaleQuery ==
  (last.op \in Mutations /\ last.err = "") =>
    \A input \in Queries :
      LET r == QueryWithContext(Now, input, TRUE, TRUE)
      IN  (r.err = "" /\ CallsOf(r, "Query") = << >>) => r.out = StoreQuery(db, input)

\* a call whose remote call failed returns that error and leaves the item,
\* query and scan caches as they were
RemoteErrorKept(r) ==
  /\ r.err = "RemoteErr"
  /\ r.c.items = items
  /\ r.c.queries = queries
  /\ r.c.scans = scans

\* C10: when the remote call of an operation fails (the call itself, or the
\* prefetch read before an update, a batch write or a transactional write),
\* the error is returned and the item, query and scan caches hold the
\* entries they held before the call.
C10_RemoteErrorLeavesCaches ==
  /\ \A k \in QueryKeys :
       /\ getItem(Cache, T2Key(k)).ok
            \/ RemoteErrorKept(GetItemWithContext(Now, "T2", k, TRUE, FALSE))
       /\ RemoteErrorKept(DeleteItemWithContext(Now, "T2", k, "", TRUE, FALSE))
       /\ \A u \in Updates, rv \in ReturnValues :
            /\ RemoteErrorKept(UpdateItemWithContext(Now, "T2", k, u, rv, TRUE, 1, FALSE))
            /\ rv \in {"", "NONE", "ALL_NEW"}
                 \/ RemoteErrorKept(UpdateItemWithContext(Now, "T2", k, u, rv, TRUE, 0, TRUE))
  /\ \A i \in ItemsOver(QueryKeys) :
       RemoteErrorKept(PutItemWithContext(Now, "T2", i, TRUE, FALSE))
  /\ \A reqs \in BatchWrites("T2", QueryKeys, ItemsOver(QueryKeys)) :
       LET n == Len(batchWritePrefetch(reqs))
       IN  /\ RemoteErrorKept(BatchWriteItemWithContext(Now, reqs, TRUE, n, FALSE, {}))
           /\ \A pages \in 0..(n - 1) :
                RemoteErrorKept(BatchWriteItemWithContext(Now, reqs, TRUE, pages, TRUE, {}))
  /\ \A titems \in Transacts("T2", QueryKeys, ItemsOver(QueryKeys), Updates) :
       LET n == Len(transactPrefetch(titems))
       IN  /\ RemoteErrorKept(TransactWriteItemsWithContext(Now, titems, TRUE, n, FALSE))
           /\ \A pages \in 0..(n - 1) :
                RemoteErrorKept(TransactWriteItemsWithContext(Now, titems, TRUE, pages, TRUE))
  /\ \A input \in Queries :
       LET r == QueryWithContext(Now, input, TRUE, FALSE)
       IN  CallsOf(r, "Query") = << >> \/ RemoteErrorKept(r)
  /\ \A input \in Scans :
       LET r == ScanWithContext(Now, input, TRUE, FALSE)
       IN  CallsOf(r, "Scan") = << >> \/ RemoteErrorKept(r)

(***************************************************************************)
(* SpecScope: puts, deletes and queries of T2 under two hash values.       *)
(***************************************************************************)
\* the second hash value ends in the separator and the name that
\* tableHashKey writes for the index l
ScopeHashes == {"x", "x#l"}
ScopeKeys == {[h |-> S(v), r |-> S("1")] : v \in ScopeHashes}

\* the queries of the base table and of the local index, by hash value
ScopeQueries == {QueryOn("T2", idx, "h", v) : idx \in {"", "l"}, v \in ScopeHashes}

NextScope ==
  \/ \E i \in ItemsOver(ScopeKeys) : PutItem("T2", i)
  \/ \E k \in ScopeKeys : DeleteItem("T2", k)
  \/ \E input \in ScopeQueries : Query(input)

SpecScope == Init /\ [][NextScope]_vars

\* the hash value a query of ScopeQueries is scoped to
HashOf(input) == input.KeyConditions["h"].AttributeValueList[1]

\* a query is served from the cache: it succeeds without a remote call
Served(r) == r.err = "" /\ r.c.remote = << >>

\* C7: on a table with a two-component key schema, a successful PutItem of
\* an item with hash value H1 purges the query groups scoped to H1, and
\* every cached query result scoped to another hash value H2 stays in the
\* cache, served as before without a remote call.
C7_PutScopedToHash ==
  \A i \in ItemsOver(ScopeKeys) :
    LET r == PutItemWithContext(Now, "T2", i, TRUE, TRUE)
    IN  r.err = "" =>
          \A input \in ScopeQueries :
            LET before == QueryWithContext(Now, input, TRUE, TRUE)
                after == QueryWithContext(After(Now, r), input, TRUE, TRUE)
            IN  IF HashOf(input) = i.h
                THEN CallsOf(after, "Query") # << >>
                ELSE Served(before) => Served(after) /\ after.out = before.out

(***************************************************************************)
(* SpecAllow: scans, queries and mutations of the hash-only table T1,      *)
(* with Allow.                                                             *)
(***************************************************************************)
AllowKeys == {[h |-> S("x")]}

AllowQueries == {QueryOn("T1", "", "h", v) : v \in {"x", "y"}}

AllowScans == {[TableName |-> "T1", IndexName |-> ""]}

NextAllow ==
  \/ \E t \in Tables : Allow(t)
  \/ \E k \in AllowKeys : PutItem("T1", k)
  \/ \E k \in AllowKeys : DeleteItem("T1", k)
  \/ \E k \in AllowKeys, rv \in ReturnValues : UpdateItem("T1", k, Nil, rv)
  \/ \E reqs \in BatchWrites("T1", AllowKeys, AllowKeys) :
       \E unproc \in SUBSET {[table |-> "T1", req |-> r] : r \in Range(reqs[1].reqs)} :
         BatchWriteItem(reqs, unproc)
  \/ \E titems \in Transacts("T1", AllowKeys, AllowKeys, {Nil}) : TransactWriteItems(titems)
  \/ \E input \in AllowQueries : Query(input)
  \/ \E input \in AllowScans : Scan(input)

SpecAllow == Init /\ [][NextAllow]_vars

\* the batches and transactions of T1 that write at least one item: unproc
\* is what the store leaves unprocessed
AllowBatchWrites ==
  {b \in [reqs : BatchWrites("T1", AllowKeys, AllowKeys),
          unproc : SUBSET {[table |-> "T1", req |-> r] : r \in WriteRequests(AllowKeys, AllowKeys)}] :
     /\ \A u \in b.unproc : u.req \in Range(b.reqs[1].reqs)
     /\ \E r \in Range(b.reqs[1].reqs) : [table |-> "T1", req |-> r] \notin b.unproc}

AllowTransacts == Transacts("T1", AllowKeys, AllowKeys, {Nil}) \ {<< >>}

\* after a successful call that returned r, no scan of T1 is cached and
\* every scan of T1 issues a remote Scan
ScansPurged(r) ==
  r.err = "" =>
    /\ \A p \in DOMAIN r.c.scans : p[1] # "T1"
    /\ \A input \in AllowScans :
         CallsOf(ScanWithContext(After(Now, r), input, TRUE, TRUE), "Scan") # << >>

\* every successful mutation of T1 purges the scans of T1
MutationsPurgeScans ==
  /\ \A k \in AllowKeys :
       /\ ScansPurged(PutItemWithContext(Now, "T1", k, TRUE, TRUE))
       /\ ScansPurged(DeleteItemWithContext(Now, "T1", k, "", TRUE, TRUE))
       /\ \A rv \in ReturnValues :
            ScansPurged(UpdateItemWithContext(Now, "T1", k, Nil, rv, TRUE, 1, TRUE))
  /\ \A b \in AllowBatchWrites :
       ScansPurged(BatchWriteItemWithContext(Now, b.reqs, TRUE, MaxBatch, TRUE, b.unproc))
  /\ \A titems \in AllowTransacts :
       ScansPurged(TransactWriteItemsWithContext(Now, titems, TRUE, MaxBatch, TRUE))

\* C3 (as amended): after a successful mutation of T made while T is cached
\* (T allowed, or no table allowed), no scan entry of T remains cached, and
\* the next Scan of T is a miss that issues a remote Scan.
C3_ScanPurgedWhileCached == isAllowed(allowedTables, "T1") => MutationsPurgeScans

\* C3 (as stated): after any successful mutation of T through the Cache no
\* scan entry of T remains cached, and the next Scan of T is a miss that
\* issues a remote Scan.
C3_ScanAlwaysPurged == MutationsPurgeScans

\* a PutItem completed on the cached table T1 while a scan was cached
C3_PutAfterScan ==
  /\ last.op = "PutItem" /\ last.err = "" /\ last.allowed
  /\ last.had.scan
  /\ scans = << >>

\* after a successful PutItem that returned r, no base-table query of T1 is
\* cached and every query of T1 issues a remote Query
QueriesPurged(r) ==
  r.err = "" =>
    /\ \A p \in DOMAIN r.c.queries : p[1] # "T1"
    /\ \A input \in AllowQueries :
         CallsOf(QueryWithContext(After(Now, r), input, TRUE, TRUE), "Query") # << >>

PutsPurgeQueries ==
  \A k \in AllowKeys : QueriesPurged(PutItemWithContext(Now, "T1", k, TRUE, TRUE))

\* C8 (as amended): on a table with a hash key only, a successful PutItem
\* made while the table is cached purges every cached base-table query
\* result of the table, whatever hash value the query or the item carries.
C8_PutPurgesTableWhileCached == isAllowed(allowedTables, "T1") => PutsPurgeQueries

\* C8 (as stated): on a table with a hash key only, any successful PutItem
\* purges every cached base-table query result of the table.
C8_PutAlwaysPurgesTable == PutsPurgeQueries

\* a PutItem completed on the cached table T1 while a query result was
\* cached
C8_PutAfterQuery ==
  /\ last.op = "PutItem" /\ last.err = "" /\ last.allowed
  /\ last.had.query
  /\ queries = << >>

\* r is the return of a call that went straight to the store: one remote
\* call, the stores and the cached descriptions untouched
PassedThrough(r, op) ==
  /\ CallNames(r.c.remote) = <<op>>
  /\ r.c.items = items
  /\ r.c.queries = queries
  /\ r.c.scans = scans
  /\ r.c.tableDesc = tableDesc

KeysOfTable(t) == IF t = "T1" THEN AllowKeys ELSE QueryKeys

QueriesOfTable(t) == IF t = "T1" THEN AllowQueries ELSE Queries

\* C9: while no table has been allowed every table is cached; once a table
\* has been allowed, each of the nine operations on a table that was not
\* allowed passes straight through: it reads no cache, writes no entry,
\* purges no group and fetches no schema.
C9_AllowPassThrough ==
  /\ allowedTables = {} => \A t \in Tables : isAllowed(allowedTables, t)
  /\ \A t \in Tables : (allowedTables # {} /\ t \notin allowedTables) =>
       \A dOk \in BOOLEAN, rOk \in BOOLEAN :
         /\ \A k \in KeysOfTable(t) :
              /\ PassedThrough(GetItemWithContext(Now, t, k, dOk, rOk), "GetItem")
              /\ PassedThrough(PutItemWithContext(Now, t, k, dOk, rOk), "PutItem")
              /\ PassedThrough(DeleteItemWithContext(Now, t, k, "", dOk, rOk), "DeleteItem")
              /\ \A rv \in ReturnValues :
                   PassedThrough(UpdateItemWithContext(Now, t, k, Nil, rv, dOk, 1, rOk),
                                 "UpdateItem")
              /\ PassedThrough(BatchGetItemWithContext(Now, <<[table |-> t, Keys |-> <<k>>]>>,
                                                       dOk, rOk, {}), "BatchGetItem")
              /\ PassedThrough(
                   BatchWriteItemWithContext(
                     Now, <<[table |-> t, reqs |-> <<[PutRequest |-> [Item |-> k]]>>]>>,
                     dOk, 1, rOk, {}), "BatchWriteItem")
              /\ PassedThrough(
                   TransactWriteItemsWithContext(
                     Now, <<[Put |-> [TableName |-> t, Item |-> k]]>>, dOk, 1, rOk),
                   "TransactWriteItems")
         /\ \A input \in QueriesOfTable(t) :
              PassedThrough(QueryWithContext(Now, input, dOk, rOk), "Query")
         /\ PassedThrough(ScanWithContext(Now, [TableName |-> t, IndexName |-> ""], dOk, rOk),
                          "Scan")

(***************************************************************************)
(* SpecQuery, continued: the caches after a delete and after an update.    *)
(***************************************************************************)
\* the query groups Cache.invalidate purges for an item of table: the
\* table's own group, and the group of every index whose hash attribute the
\* item carries
GroupsOf(table, item) ==
  LET d == DescribeTable(table)
  IN  {IF Len(d.KeySchema) = 1 THEN table
       ELSE tableHashKey(table, Lookup(item, d.KeySchema[1]), "")}
      \cup {tableHashKey(table, IF Len(g.KeySchema) = 1 THEN Nil ELSE item[g.KeySchema[1]],
                         g.IndexName) :
              g \in {x \in Range(d.GlobalSecondaryIndexes) :
                       Len(x.KeySchema) = 1 \/ x.KeySchema[1] \in DOMAIN item}}
      \cup {tableHashKey(table, item[l.KeySchema[1]], l.IndexName) :
              l \in {x \in Range(d.LocalSecondaryIndexes) : x.KeySchema[1] \in DOMAIN item}}

\* the query cache without the groups of item, and the scan cache without
\* the scans of table
QueriesWithout(table, item) ==
  [p \in {q \in DOMAIN queries : q[1] \notin GroupsOf(table, item)} |-> queries[p]]

ScansWithout(table) == DeleteAll(scans, table)

\* C11: after a successful DeleteItem on a cached table the item cache
\* holds the Absent sentinel (none) under the key, not a missing entry; a
\* GetItem of the key that follows returns no item and issues no remote
\* call, whatever the store would answer; and the query groups and scans
\* purged are those of the item as the store held it before the delete.
C11_DeleteCachesAbsent ==
  \A k \in QueryKeys, rv \in DeleteReturnValues :
    LET r == DeleteItemWithContext(Now, "T2", k, rv, TRUE, TRUE)
        old == StoreGet(db, "T2", k)
    IN  r.err = "" =>
          /\ getItem(r.c, T2Key(k)) = [v |-> none, ok |-> TRUE]
          /\ \A dOk \in BOOLEAN, rOk \in BOOLEAN :
               LET g == GetItemWithContext(After(Now, r), "T2", k, dOk, rOk)
               IN  g.err = "" /\ g.out = Nil /\ g.c.remote = << >>
          /\ r.c.queries = QueriesWithout("T2", old)
          /\ r.c.scans = ScansWithout("T2")

\* a DeleteItem removed an item of the store while a query result was
\* cached, and left the sentinel under the key
C11_DeletedExisting ==
  /\ last.op = "DeleteItem" /\ last.err = "" /\ last.allowed
  /\ last.changed /\ last.had.query
  /\ \E k \in QueryKeys : getItem(Cache, T2Key(k)) = [v |-> none, ok |-> TRUE]

\* the ReturnValues the remote UpdateItem call of a return r was sent with
UpdateAsked(r) == CallsOf(r, "UpdateItem")[1].arg.ReturnValues

\* the remote calls of a return r other than the fetches of a description
DataCalls(r) == SelectSeq(r.c.remote, LAMBDA x : x.call # "DescribeTable")

\* C12: after a successful UpdateItem on a cached table: when the remote
\* update was asked for the new image (ALL_NEW), the item cache holds under
\* the key exactly the image the store returned, and the groups purged are
\* those of that image; otherwise the key has no entry in the item cache
\* and a prefetch read of the key came before the remote update.
C12_UpdateCachesNewImage ==
  \A k \in QueryKeys, u \in Updates, rv \in ReturnValues :
    LET r == UpdateItemWithContext(Now, "T2", k, u, rv, TRUE, 1, TRUE)
        new == ApplyUpdate(StoreGet(db, "T2", k), k, u)
    IN  r.err = "" =>
          /\ Len(CallsOf(r, "UpdateItem")) = 1
          /\ IF UpdateAsked(r) = "ALL_NEW"
             THEN /\ r.out = new
                  /\ getItem(r.c, T2Key(k)) = [v |-> new, ok |-> TRUE]
                  /\ r.c.queries = QueriesWithout("T2", new)
                  /\ r.c.scans = ScansWithout("T2")
             ELSE /\ T2Key(k) \notin DOMAIN r.c.items
                  /\ Len(DataCalls(r)) = 2
                  /\ DataCalls(r)[1] = [call |-> "BatchGetItemPages",
                                        arg |-> <<[table |-> "T2", key |-> k]>>,
                                        ConsistentRead |-> TRUE]
                  /\ DataCalls(r)[2].call = "UpdateItem"

\* an UpdateItem that did not ask for the new image changed the store after
\* its prefetch read, while a query result was cached, and the item cache
\* holds no entry
C12_UpdatedWithoutImage ==
  /\ last.op = "UpdateItem" /\ last.err = "" /\ last.allowed
  /\ last.remote = <<"BatchGetItemPages", "UpdateItem">>
  /\ last.changed /\ last.had.query
  /\ items = << >>

\* the item, query and scan caches of a cache record
Caches(c) == [items |-> c.items, queries |-> c.queries, scans |-> c.scans]

RECURSIVE SingleWrites(_, _, _, _)
\* the state after a PutItem or a DeleteItem for every request of reqs that
\* is not among unproc, one call after the other
SingleWrites(st, table, reqs, unproc) ==
  IF reqs = << >> THEN st
  ELSE LET q == Head(reqs)
           r == IF IsDelete(q)
                THEN DeleteItemWithContext(st, table, q.DeleteRequest.Key, "", TRUE, TRUE)
                ELSE PutItemWithContext(st, table, q.PutRequest.Item, TRUE, TRUE)
           st1 == IF [table |-> table, req |-> q] \in unproc THEN st ELSE After(st, r)
       IN  SingleWrites(st1, table, Tail(reqs), unproc)

\* C13: a successful BatchWriteItem leaves the item, query and scan caches
\* as the single-item PutItem and DeleteItem calls of its processed
\* sub-requests would: a sub-request the store reports in UnprocessedItems
\* writes no item-cache entry and purges no query or scan group.
C13_BatchWriteSkipsUnprocessed ==
  \A reqs \in BatchWrites("T2", QueryKeys, ItemsOver(QueryKeys)) :
    \A unproc \in SUBSET {[table |-> "T2", req |-> q] : q \in Range(reqs[1].reqs)} :
      LET r == BatchWriteItemWithContext(Now, reqs, TRUE, MaxBatch, TRUE, unproc)
      IN  r.err = "" =>
            Caches(r.c) = Caches(SingleWrites(Now, "T2", reqs[1].reqs, unproc).c)

(***************************************************************************)
(* Spec, continued: the item cache after a batch read.                     *)
(***************************************************************************)
\* after the batch read that returned r: every key of sent is cached with
\* the item the store returned for it, or as absent when the store holds no
\* item for it, and a key the store left unprocessed (un) has no entry
BatchGetCached(r, sent, un) ==
  \A k \in sent :
    IF k \in un THEN T2Key(k) \notin DOMAIN r.c.items
    ELSE IF StoreGet(db, "T2", k) # Nil
         THEN getItem(r.c, T2Key(k)) = [v |-> StoreGet(db, "T2", k), ok |-> TRUE]
         ELSE getItem(r.c, T2Key(k)) = [v |-> none, ok |-> TRUE]

\* C14: after a BatchGetItem that went to the remote store, every returned
\* item is cached under its key; every key that was sent, was not returned
\* and was not reported in UnprocessedKeys is cached as Absent (none); and
\* no key reported in UnprocessedKeys has an entry in the item cache.
C14_BatchGetCaches ==
  \A ks \in SeqsUpTo(ItemKeys, 2) : \A un \in SUBSET Range(ks) :
    LET r == BatchGetItemWithContext(Now, <<[table |-> "T2", Keys |-> ks]>>, TRUE, TRUE,
                                     {[table |-> "T2", key |-> k] : k \in un})
    IN  (r.err = "" /\ BatchGetAsked(r) # {}) => BatchGetCached(r, BatchGetAsked(r), un)

(***************************************************************************)
(* Repeated reads, checked in SpecRepeat.                                  *)
(***************************************************************************)
\* a read that returned r issued no remote call of its kind, or issued one
\* and, when that call failed, left the query and scan caches as they were
MissPopulatesOnSuccess(r, call) ==
  /\ Len(CallsOf(r, call)) <= 1
  /\ (CallsOf(r, call) # << >> /\ r.err # "") =>
        r.c.queries = queries /\ r.c.scans = scans

NextPurge ==
  \/ \E k \in QueryKeys : GetItem("T2", k)
  \/ \E i \in ItemsOver(QueryKeys) : PutItem("T2", i)
  \/ \E input \in Queries : Query(input)
  \/ \E input \in Scans : Scan(input)
  \/ PurgeAll

SpecPurge == Init /\ [][NextPurge]_vars

\* the state a PurgeAll called now leaves
Purged == [c |-> PurgeAllStores(Cache), db |-> db, allowed |-> allowedTables]

\* C16: after PurgeAll the item, schema, query and scan stores are empty:
\* the next GetItem, Query and Scan of any key or request is a miss that
\* goes to the remote store, and the next schema lookup fetches the table
\* description again.
C16_PurgeAllEmpties ==
  /\ last.op = "PurgeAll" =>
       items = << >> /\ tableDesc = << >> /\ queries = << >> /\ scans = << >>
  /\ Purged.c.items = << >> /\ Purged.c.tableDesc = << >>
  /\ Purged.c.queries = << >> /\ Purged.c.scans = << >>
  /\ \A t \in Tables : CallNames(schemaOf(Purged.c, t, TRUE).c.remote) = <<"DescribeTable">>
  /\ \A k \in QueryKeys :
       CallNames(GetItemWithContext(Purged, "T2", k, TRUE, TRUE).c.remote)
         = <<"DescribeTable", "GetItem">>
  /\ \A input \in Queries :
       CallNames(QueryWithContext(Purged, input, TRUE, TRUE).c.remote)
         = <<"DescribeTable", "Query">>
  /\ \A input \in Scans :
       CallNames(ScanWithContext(Purged, input, TRUE, TRUE).c.remote)
         = <<"DescribeTable", "Scan">>

\* a PurgeAll was called while a query result and a scan result of a
\* non-empty table were cached
C16_PurgedFullCaches ==
  /\ last.op = "PurgeAll"
  /\ last.had.query /\ last.had.scan
  /\ db["T2"] # {}

(***************************************************************************)
(* SpecHits: the reads of T2, with puts, and the counters hits and miss.   *)
(***************************************************************************)
NextHits ==
  \/ \E k \in QueryKeys, o \in Outcomes({"T2"}, 0) :
       DoCounted(GetItemWithContext(Now, "T2", k, o.dOk, o.rOk))
  \/ \E i \in ItemsOver(QueryKeys), o \in Outcomes({"T2"}, 0) :
       DoCounted(PutItemWithContext(Now, "T2", i, o.dOk, o.rOk))
  \/ \E reqs \in BatchGets("T2", QueryKeys), o \in Outcomes({"T2"}, 0) :
       DoCounted(BatchGetItemWithContext(Now, reqs, o.dOk, o.rOk, {}))
  \/ \E input \in Queries, o \in Outcomes({"T2"}, 0) :
       DoCounted(QueryWithContext(Now, input, o.dOk, o.rOk))
  \/ \E input \in Scans, o \in Outcomes({"T2"}, 0) :
       DoCounted(ScanWithContext(Now, input, o.dOk, o.rOk))

SpecHits == Init /\ [][NextHits]_vars

\* the call that returned r counted nHit lookups as hits and nMiss as misses
Counted(r, nHit, nMiss) == r.c.hits = hits + nHit /\ r.c.miss = miss + nMiss

\* a read of one entry that returned r, its schema known, counted its one
\* lookup: a hit when it was served from the cache (no remote call of its
\* kind, no error), a miss otherwise
CountedOnce(r, call) ==
  IF r.err = "" /\ CallsOf(r, call) = << >> THEN Counted(r, 1, 0) ELSE Counted(r, 0, 1)

\* C17: HitRatio is 0 before any lookup; it is hits / (hits + misses) and
\* lies between 0 and 1; and every lookup of the item, query and scan
\* caches is counted once, as a hit when it was served from the cache and
\* as a miss otherwise, whether or not the remote call of a miss succeeds.
C17_HitRatioCounts ==
  /\ hits + miss = 0 => HitRatio(Cache).num = 0
  /\ hits + miss > 0 => HitRatio(Cache) = [num |-> hits, den |-> hits + miss]
  /\ 0 <= HitRatio(Cache).num /\ HitRatio(Cache).num <= HitRatio(Cache).den
  /\ \A rOk \in BOOLEAN :
       /\ \A k \in QueryKeys :
            CountedOnce(GetItemWithContext(Now, "T2", k, TRUE, rOk), "GetItem")
       /\ \A input \in Queries : CountedOnce(QueryWithContext(Now, input, TRUE, rOk), "Query")
       /\ \A input \in Scans : CountedOnce(ScanWithContext(Now, input, TRUE, rOk), "Scan")
       /\ \A reqs \in BatchGets("T2", QueryKeys) :
            LET r == BatchGetItemWithContext(Now, reqs, TRUE, rOk, {})
                asked == Cardinality(BatchGetAsked(r))
            IN  Counted(r, Len(reqs[1].Keys) - asked, asked)

(***************************************************************************)
(* SpecQuery, continued: the Cache in the place of the raw client.         *)
(***************************************************************************)
\* the read options of one table of a BatchGetItem request: every field of
\* its KeysAndAttributes but the keys
ReadOptions(req) == [f \in DOMAIN req \ {"table", "Keys"} |-> req[f]]

\* a BatchGetItem request of T2 that asks for a consistent read
ConsistentBatchGet(k) == <<[table |-> "T2", Keys |-> <<k>>, ConsistentRead |-> TRUE]>>

\* C18: the request forwarded to the remote store carries the caller's own
\* options and the response is the raw client's for the caller's request on
\* the same store: DeleteItem and UpdateItem forward the caller's
\* ReturnValues and return the attributes it asks for, BatchGetItem
\* forwards the caller's read options for the keys it fetches, and GetItem,
\* Query and Scan return what the store holds.
C18_SameAsRawClient ==
  /\ \A k \in QueryKeys :
       LET old == StoreGet(db, "T2", k)
       IN  /\ \A rv \in DeleteReturnValues :
                LET r == DeleteItemWithContext(Now, "T2", k, rv, TRUE, TRUE)
                IN  r.err = "" =>
                      /\ CallsOf(r, "DeleteItem")[1].arg.ReturnValues = rv
                      /\ r.out = DeleteAttributes(old, rv)
           /\ \A u \in Updates, rv \in ReturnValues :
                LET r == UpdateItemWithContext(Now, "T2", k, u, rv, TRUE, 1, TRUE)
                IN  r.err = "" =>
                      /\ UpdateAsked(r) = rv
                      /\ r.out = UpdateAttributes(old, ApplyUpdate(old, k, u), u, rv)
           /\ LET r == BatchGetItemWithContext(Now, ConsistentBatchGet(k), TRUE, TRUE, {})
              IN  \A call \in Range(CallsOf(r, "BatchGetItem")) :
                    \A req \in Range(call.arg) :
                      ReadOptions(req) = ReadOptions(ConsistentBatchGet(k)[1])
           /\ LET r == GetItemWithContext(Now, "T2", k, TRUE, TRUE)
              IN  r.err = "" => r.out = old
  /\ \A input \in Queries :
       LET r == QueryWithContext(Now, input, TRUE, TRUE)
       IN  r.err = "" => r.out = StoreQuery(db, input)
  /\ \A input \in Scans :
       LET r == ScanWithContext(Now, input, TRUE, TRUE)
       IN  r.err = "" => r.out = StoreScan(db, input)

(***************************************************************************)
(* SpecQuery, continued: a failing fetch of a table description.           *)
(***************************************************************************)
\* a call during which a fetch of a table description failed returns that
\* error and leaves the item, query and scan caches as they were (r is the
\* return of a call whose DescribeTable calls all fail)
DescribeErrorKept(r) ==
  "DescribeTable" \in Range(CallNames(r.c.remote)) =>
    r.err = "DescribeErr" /\ Caches(r.c) = Caches(Cache)

\* a put of T2 followed by a put of T1, as a batch and as a transaction
TwoTableBatch(i) ==
  <<[table |-> "T2", reqs |-> <<[PutRequest |-> [Item |-> i]]>>],
    [table |-> "T1", reqs |-> <<[PutRequest |-> [Item |-> [h |-> S("x")]]]>>]>>

TwoTableTransact(i) ==
  <<[Put |-> [TableName |-> "T2", Item |-> i]],
    [Put |-> [TableName |-> "T1", Item |-> [h |-> S("x")]]]>>

\* C19: when fetching a table's description fails during an operation, the
\* operation returns that error without crashing and the item, query and
\* scan caches are as they were before the call; this for each of the nine
\* operations, and for a BatchWriteItem and a TransactWriteItems that touch
\* two tables.
C19_DescribeErrorLeavesCaches ==
  /\ \A k \in QueryKeys :
       /\ DescribeErrorKept(GetItemWithContext(Now, "T2", k, FALSE, TRUE))
       /\ DescribeErrorKept(DeleteItemWithContext(Now, "T2", k, "", FALSE, TRUE))
       /\ \A u \in Updates, rv \in ReturnValues :
            DescribeErrorKept(UpdateItemWithContext(Now, "T2", k, u, rv, FALSE, 1, TRUE))
       /\ DescribeErrorKept(
            BatchGetItemWithContext(Now, <<[table |-> "T2", Keys |-> <<k>>]>>, FALSE, TRUE, {}))
  /\ \A i \in ItemsOver(QueryKeys) :
       /\ DescribeErrorKept(PutItemWithContext(Now, "T2", i, FALSE, TRUE))
       /\ DescribeErrorKept(BatchWriteItemWithContext(Now, TwoTableBatch(i), FALSE, 0, TRUE, {}))
       /\ DescribeErrorKept(TransactWriteItemsWithContext(Now, TwoTableTransact(i), FALSE, 0, TRUE))
  /\ \A reqs \in BatchWrites("T2", QueryKeys, ItemsOver(QueryKeys)) :
       DescribeErrorKept(BatchWriteItemWithContext(Now, reqs, FALSE, MaxBatch, TRUE, {}))
  /\ \A titems \in Transacts("T2", QueryKeys, ItemsOver(QueryKeys), Updates) :
       DescribeErrorKept(TransactWriteItemsWithContext(Now, titems, FALSE, MaxBatch, TRUE))
  /\ \A input \in Queries : DescribeErrorKept(QueryWithContext(Now, input, FALSE, TRUE))
  /\ \A input \in Scans : DescribeErrorKept(ScanWithContext(Now, input, FALSE, TRUE))

\* a query of T2 on an index the table does not have
UnknownIndexQuery == QueryOn("T2", "k", "h", "x")

\* C20: a Query that names an index the table does not have returns a
\* NotFound error to its caller: it does not crash, issues no remote Query
\* and changes no cache.
C20_UnknownIndexNotFound ==
  LET r == QueryWithContext(Now, UnknownIndexQuery, TRUE, TRUE)
  IN  /\ r.err = "NotFound"
      /\ CallsOf(r, "Query") = << >>
      /\ Caches(r.c) = Caches(Cache)

(***************************************************************************)
(* SpecQuery, continued: an attribute value without a tag.                 *)
(***************************************************************************)
\* a key of T2 whose range attribute carries none of the recognized tags,
\* and a query of T2 whose operand carries none
UntaggedKey == [h |-> S("x"), r |-> EmptyAV]

UntaggedQuery ==
  [TableName |-> "T2", IndexName |-> "",
   KeyConditions |-> ("h" :> [ComparisonOperator |-> "EQ", AttributeValueList |-> <<EmptyAV>>])]

\* the call that returned r ended with an encoding error: it did not crash,
\* issued no remote call and derived no cache key, the caches being as they
\* were
EncodingFaultReturned(r) ==
  /\ r.err = "EncodingFault"
  /\ DataCalls(r) = << >>
  /\ Caches(r.c) = Caches(Cache)

\* C21: encoding an attribute value that carries none of the recognized
\* tags yields an explicit error that the enclosing operation (here a
\* GetItem, a PutItem and a Query) returns to its caller; the process does
\* not crash and no cache key is produced.
C21_UnknownTagIsError ==
  /\ EncodingFaultReturned(GetItemWithContext(Now, "T2", UntaggedKey, TRUE, TRUE))
  /\ EncodingFaultReturned(PutItemWithContext(Now, "T2", UntaggedKey, TRUE, TRUE))
  /\ EncodingFaultReturned(QueryWithContext(Now, UntaggedQuery, TRUE, TRUE))

(***************************************************************************)
(* SpecDesc: callers that run Cache.desc concurrently.  A call of desc is  *)
(* two steps, the lookup of line 607 and, after a miss, the DescribeTable  *)
(* call with the Set of the answer (lines 609-613); the steps of the       *)
(* callers interleave.                                                     *)
(***************************************************************************)
\* the variables the steps of desc leave alone
descUnchanged == <<db, items, queries, scans, allowedTables, hits, miss, last, seen>>

\* what desc returned to its caller
descDone(table, out, err) == [at |-> "done", table |-> table, out |-> out, err |-> err]

\* lines 607-608 and 617: the lookup; a hit returns the cached description
descGet(caller, table) ==
  /\ pending[caller] = Idle
  /\ pending' = [pending EXCEPT ![caller] =
                   IF table \in DOMAIN tableDesc
                   THEN descDone(table, tableDesc[table].v, FALSE)
                   ELSE [at |-> "DescribeTable", table |-> table]]
  /\ UNCHANGED <<tableDesc, described>>
  /\ UNCHANGED descUnchanged

\* lines 609-615: the remote call after a miss, and the Set of its answer.
\* The lookup of line 607 has missed: the call is made whatever the schema
\* cache holds by now.
descFetch(caller, dOk) ==
  /\ pending[caller].at = "DescribeTable"
  /\ LET table == pending[caller].table
         d == desc([Cache EXCEPT !.tableDesc = << >>], table, dOk)
     IN  /\ pending' = [pending EXCEPT ![caller] = descDone(table, d.out, d.err)]
         /\ tableDesc' = IF d.err THEN tableDesc ELSE d.c.tableDesc @@ tableDesc
         /\ described' = IF d.err THEN described ELSE [described EXCEPT ![table] = @ + 1]
  /\ UNCHANGED descUnchanged

\* the caller goes on with the description, or the error, it received
descReturn(caller) ==
  /\ pending[caller].at = "done"
  /\ pending' = [pending EXCEPT ![caller] = Idle]
  /\ UNCHANGED <<tableDesc, described>>
  /\ UNCHANGED descUnchanged

NextDesc ==
  \/ \E caller \in Callers, t \in Tables : descGet(caller, t)
  \/ \E caller \in Callers, dOk \in BOOLEAN : descFetch(caller, dOk)
  \/ \E caller \in Callers : descReturn(caller)

SpecDesc == Init /\ [][NextDesc]_vars

\* C22: when concurrent callers request the schema of a table that is not
\* yet cached, one remote DescribeTable call is answered for that table (no
\* second caller fetches a table another caller is fetching, so that the
\* store describes a table once), and every caller receives its result.
C22_SingleFlightDescribe ==
  \A t \in Tables :
    /\ described[t] <= 1
    /\ Cardinality({c \in Callers : pending[c] = [at |-> "DescribeTable", table |-> t]}) <= 1
    /\ \A c \in Callers :
         (pending[c].at = "done" /\ pending[c].table = t /\ ~pending[c].err)
           => pending[c].out = DescribeTable(t)

(***************************************************************************)
(* SpecTTL: reads of T2 that race with puts, and the passing of time.  A   *)
(* racing read is two steps: the lookup with, after a miss, the remote     *)
(* read, and the Set of the answer; calls of other callers run in between. *)
(***************************************************************************)
\* the variables neither a racing read nor the passing of time touches
readUnchanged == <<db, allowedTables, hits, miss, described, last, seen>>

\* a store's entries five minutes later
Older(store) ==
  [k \in DOMAIN store |-> [store[k] EXCEPT !.ttl = IF @ > 0 THEN @ - 1 ELSE 0]]

\* five minutes pass without a call.  The age of a cached description is
\* not followed: desc never looks at it.
FiveMinutesPass ==
  /\ <<Older(items), Older(queries), Older(scans)>> # <<items, queries, scans>>
  /\ items' = Older(items)
  /\ queries' = Older(queries)
  /\ scans' = Older(scans)
  /\ UNCHANGED <<tableDesc, pending>>
  /\ UNCHANGED readUnchanged

\* the first step of a read whose whole call would return r: the lookup
\* misses and the remote read succeeds; set is the Set that is still to come
readBegin(caller, r, set) ==
  /\ pending[caller] = Idle
  /\ r.err = ""
  /\ CallsOf(r, r.op) # << >>
  /\ pending' = [pending EXCEPT ![caller] = set]
  /\ tableDesc' = r.c.tableDesc
  /\ UNCHANGED <<items, queries, scans>>
  /\ UNCHANGED readUnchanged

\* lines 170-187 of GetItemWithContext, then line 192
getItemBegin(caller, table, key) ==
  LET r == GetItemWithContext(Now, table, key, TRUE, TRUE)
  IN  readBegin(caller, r,
                [at |-> "setItem", v |-> r.out,
                 key |-> itemKey(table, key, schemaOf(Cache, table, TRUE).out)])

getItemEnd(caller) ==
  /\ pending[caller].at = "setItem"
  /\ items' = setItem(Cache, pending[caller].key, pending[caller].v).items
  /\ pending' = [pending EXCEPT ![caller] = Idle]
  /\ UNCHANGED <<tableDesc, queries, scans>>
  /\ UNCHANGED readUnchanged

\* lines 496-521 of QueryWithContext, then line 526
queryBegin(caller, input) ==
  LET r == QueryWithContext(Now, input, TRUE, TRUE)
      schema == IndexSchemaOf(input.TableName, input.IndexName)
  IN  readBegin(caller, r,
                [at |-> "setQuery", v |-> r.out,
                 table |-> queryGroup(input, schema), key |-> queryKey(input, schema)])

queryEnd(caller) ==
  /\ pending[caller].at = "setQuery"
  /\ queries' = setQuery(Cache, pending[caller].table, pending[caller].key,
                         pending[caller].v).queries
  /\ pending' = [pending EXCEPT ![caller] = Idle]
  /\ UNCHANGED <<tableDesc, items, scans>>
  /\ UNCHANGED readUnchanged

\* lines 535-547 of ScanWithContext, then line 553
scanBegin(caller, input) ==
  LET r == ScanWithContext(Now, input, TRUE, TRUE)
  IN  readBegin(caller, r,
                [at |-> "setScan", v |-> r.out, table |-> input.TableName,
                 key |-> scanKey(input, schemaOf(Cache, input.TableName, TRUE).out)])

scanEnd(caller) ==
  /\ pending[caller].at = "setScan"
  /\ scans' = setScan(Cache, pending[caller].table, pending[caller].key,
                      pending[caller].v).scans
  /\ pending' = [pending EXCEPT ![caller] = Idle]
  /\ UNCHANGED <<tableDesc, items, queries>>
  /\ UNCHANGED readUnchanged

\* the queries of the base table of T2
TTLQueries == {QueryOn("T2", "", "h", "x")}

NextTTL ==
  \/ \E i \in ItemsOver(QueryKeys) : PutItem("T2", i)
  \/ \E caller \in Callers, k \in QueryKeys : getItemBegin(caller, "T2", k)
  \/ \E caller \in Callers : getItemEnd(caller)
  \/ \E caller \in Callers, input \in TTLQueries : queryBegin(caller, input)
  \/ \E caller \in Callers : queryEnd(caller)
  \/ \E caller \in Callers, input \in Scans : scanBegin(caller, input)
  \/ \E caller \in Callers : scanEnd(caller)
  \/ FiveMinutesPass

SpecTTL == Init /\ [][NextTTL]_vars

\* what a GetItem served from the entry e returns
ServedItem(e) == IF e.v = none THEN Nil ELSE e.v

\* the entry of the query cache a query of T2 is cached under
QueryEntry(input) ==
  <<queryGroup(input, IndexSchemaOf("T2", input.IndexName)),
    queryKey(input, IndexSchemaOf("T2", input.IndexName))>>

ScanEntry(input) == <<"T2", scanKey(input, DescribeTable("T2").KeySchema)>>

\* C23: a value of the item, query or scan cache that the store no longer
\* returns (a pre-write value a racing read left behind) is not served once
\* its TTL has passed since it was cached, 15 minutes for an item and 5
\* minutes for a query or a scan result: the read goes to the remote store.
C23_StaleValueExpires ==
  /\ \A k \in QueryKeys :
       (/\ T2Key(k) \in DOMAIN items
        /\ ServedItem(items[T2Key(k)]) # StoreGet(db, "T2", k)
        /\ items[T2Key(k)].ttl = 0)
         => CallsOf(GetItemWithContext(Now, "T2", k, TRUE, TRUE), "GetItem") # << >>
  /\ \A input \in TTLQueries :
       (/\ QueryEntry(input) \in DOMAIN queries
        /\ queries[QueryEntry(input)].v # StoreQuery(db, input)
        /\ queries[QueryEntry(input)].ttl = 0)
         => CallsOf(QueryWithContext(Now, input, TRUE, TRUE), "Query") # << >>
  /\ \A input \in Scans :
       (/\ ScanEntry(input) \in DOMAIN scans
        /\ scans[ScanEntry(input)].v # StoreScan(db, input)
        /\ scans[ScanEntry(input)].ttl = 0)
         => CallsOf(ScanWithContext(Now, input, TRUE, TRUE), "Scan") # << >>

(***************************************************************************)
(* Prefetch before delete                                                  *)
(***************************************************************************)
\* the deletes that cannot ask the store for the old image: a BatchWriteItem
\* with a DeleteRequest of k and a TransactWriteItems with a Delete of k,
\* with pages pages of the prefetch read arriving and the write succeeding or
\* not
BlindDeletes(k, pages, rOk) ==
  {BatchWriteItemWithContext(Now, <<[table |-> "T2", reqs |-> <<[DeleteRequest |-> [Key |-> k]]>>]>>,
                             TRUE, pages, rOk, {}),
   TransactWriteItemsWithContext(Now, <<[Delete |-> [TableName |-> "T2", Key |-> k]]>>,
                                 TRUE, pages, rOk)}

\* the item, query and scan caches after the purge for the item old
PurgedFor(old) ==
  IF old = Nil THEN Caches(Cache)
  ELSE [items |-> items, queries |-> QueriesWithout("T2", old), scans |-> ScansWithout("T2")]

\* SpecPrefetch: the deletes that prefetch, on T2 with its items, queries and
\* scans cached
NextPrefetch ==
  \/ \E i \in ItemsOver(QueryKeys) : PutItem("T2", i)
  \/ \E k \in QueryKeys : GetItem("T2", k)
  \/ \E input \in Queries : Query(input)
  \/ \E input \in Scans : Scan(input)
  \/ \E k \in QueryKeys :
       \E unproc \in SUBSET {[table |-> "T2", req |-> [DeleteRequest |-> [Key |-> k]]]} :
         BatchWriteItem(<<[table |-> "T2", reqs |-> <<[DeleteRequest |-> [Key |-> k]]>>]>>, unproc)
  \/ \E k \in QueryKeys :
       TransactWriteItems(<<[Delete |-> [TableName |-> "T2", Key |-> k]]>>)

SpecPrefetch == Init /\ [][NextPrefetch]_vars

\* C24: a BatchWriteItem DeleteRequest and a TransactWriteItems Delete first
\* issue a consistent read of the key against the store, whatever the item
\* cache holds for the key; the remote write is sent only after that read
\* has returned, and not at all when it failed; the groups purged before the
\* write are those of the item the read returned, and none when it returned
\* no item.
C24_PrefetchBeforeDelete ==
  \A k \in QueryKeys :
    LET read == [call |-> "BatchGetItemPages", arg |-> <<[table |-> "T2", key |-> k]>>,
                 ConsistentRead |-> TRUE]
        old == StoreGet(db, "T2", k)
    IN  /\ \A w \in BlindDeletes(k, 0, TRUE) :
             /\ DataCalls(w) = <<read>>
             /\ w.err = "RemoteErr"
             /\ w.db = db
        /\ \A w \in BlindDeletes(k, 1, FALSE) :
             /\ Len(DataCalls(w)) = 2
             /\ DataCalls(w)[1] = read
             /\ DataCalls(w)[2].call \in {"BatchWriteItem", "TransactWriteItems"}
             /\ Caches(w.c) = PurgedFor(old)
        /\ \A w \in BlindDeletes(k, 1, TRUE) :
             /\ Len(DataCalls(w)) = 2
             /\ DataCalls(w)[1] = read
             /\ DataCalls(w)[2].call \in {"BatchWriteItem", "TransactWriteItems"}
             /\ w.err = ""
             /\ w.db = StoreDelete(db, "T2", k)

\* a BatchWriteItem of one DeleteRequest removed the item from the store
\* after its prefetch read, while the item cache held an entry and a query
\* result was cached; the query cache is empty now
C24_PrefetchedDelete ==
  /\ last.op = "BatchWriteItem" /\ last.err = ""
  /\ last.remote = <<"BatchGetItemPages", "BatchWriteItem">>
  /\ last.changed /\ last.had.query
  /\ queries = << >>
  /\ \E k \in QueryKeys : getItem(Cache, T2Key(k)) = [v |-> none, ok |-> TRUE]

(***************************************************************************)
(* SpecMove: updates that move the item of T2 between two values of a, the *)
(* hash attribute of the global index g, with the queries of g cached.     *)
(***************************************************************************)
MoveVals == {"p", "q"}

MoveItems == {[a |-> S(v)] @@ k : k \in QueryKeys, v \in MoveVals}

MoveUpdates == {[a |-> S(v)] : v \in MoveVals}

\* the ReturnValues settings with which UpdateItem is not sent as ALL_NEW
OldImageReturnValues == {"ALL_OLD", "UPDATED_NEW"}

MoveQueries == {QueryOn("T2", "g", "a", v) : v \in MoveVals}

NextMove ==
  \/ \E i \in MoveItems : PutItem("T2", i)
  \/ \E k \in QueryKeys, u \in MoveUpdates, rv \in OldImageReturnValues : UpdateItem("T2", k, u, rv)
  \/ \E k \in QueryKeys, u \in MoveUpdates :
       TransactWriteItems(<<[Update |-> [TableName |-> "T2", Key |-> k, Update |-> u]]>>)
  \/ \E input \in MoveQueries : Query(input)

SpecMove == Init /\ [][NextMove]_vars

\* the updates of the item under k to a = v that do not return the new image
MovingUpdates(k, v) ==
  {UpdateItemWithContext(Now, "T2", k, [a |-> S(v)], rv, TRUE, 1, TRUE) : rv \in OldImageReturnValues}
  \cup {TransactWriteItemsWithContext(
           Now, <<[Update |-> [TableName |-> "T2", Key |-> k, Update |-> [a |-> S(v)]]]>>,
           TRUE, 1, TRUE)}

\* the entries of a query cache in the group of index g scoped to hash value hk
GroupEntries(qs, hk) == {p \in DOMAIN qs : p[1] = tableHashKey("T2", hk, "g")}

\* C25: after a successful update that does not return the new image and
\* that changes the item's value of a, the hash attribute of index g, from
\* V_old to V_new, the query cache holds no entry of the group of g scoped to
\* V_old and none of the group of g scoped to V_new.
C25_MovePurgesBothGroups ==
  \A k \in QueryKeys, v \in MoveVals :
    LET old == StoreGet(db, "T2", k)
    IN  (old # Nil /\ old.a # S(v)) =>
          \A r \in MovingUpdates(k, v) :
            r.err = "" =>
              /\ GroupEntries(r.c.queries, old.a) = {}
              /\ GroupEntries(r.c.queries, S(v)) = {}

(***************************************************************************)
(* SpecIndex: invalidate and the groups of the indexes.  T1 has the global *)
(* index s with the single-component key schema (a); T2 has the global     *)
(* index g on (a, r) and the local index l on (h, a).                      *)
(***************************************************************************)
IndexHashes == {"x", "p#g"}

IndexKeys == {[h |-> S(v), r |-> S("1")] : v \in IndexHashes}

\* the items invalidate is called with, by table
IndexItems(table) ==
  IF table = "T1" THEN {[h |-> S("x")]} \cup {[h |-> S("x"), a |-> S(v)] : v \in AVals}
  ELSE ItemsOver(IndexKeys)

IndexQueries ==
  {QueryOn("T1", "s", "a", v) : v \in AVals}
  \cup {QueryOn("T2", "g", "a", v) : v \in AVals}
  \cup {QueryOn("T2", "l", "h", "x")}

NextIndex ==
  \/ \E t \in Tables : \E i \in IndexItems(t) : PutItem(t, i)
  \/ \E input \in IndexQueries : Query(input)

SpecIndex == Init /\ [][NextIndex]_vars

\* the entry of the query cache an index query is cached under
IndexEntry(input) ==
  <<queryGroup(input, IndexSchemaOf(input.TableName, input.IndexName)),
    queryKey(input, IndexSchemaOf(input.TableName, input.IndexName))>>

\* the hash value an index query is scoped to
IndexHashOf(input) ==
  input.KeyConditions[IndexSchemaOf(input.TableName, input.IndexName)[1]].AttributeValueList[1]

\* C26: invalidate(table, item) purges a cached query of an index of the
\* table exactly when the index is a global index with a single-component
\* key schema, or the item carries the index's hash attribute and the query
\* is scoped to the item's value of it; no query of an index whose hash
\* attribute the item lacks is purged.
C26_InvalidateIndexGroups ==
  \A t \in Tables :
    \A i \in IndexItems(t) :
      \A q \in {x \in IndexQueries : x.TableName = t /\ IndexEntry(x) \in DOMAIN queries} :
        LET schema == IndexSchemaOf(t, q.IndexName)
            c == invalidate(Cache, t, i, TRUE)
        IN  (IndexEntry(q) \notin DOMAIN c.queries)
              <=> \/ Len(schema) = 1
                  \/ schema[1] \in DOMAIN i /\ i[schema[1]] = IndexHashOf(q)

(***************************************************************************)
(* itemKey over the items the store holds                                  *)
(***************************************************************************)
\* C29: two items of T2 that the store holds under keys differing in the
\* hash value or in the range value have different item-cache keys; and the
\* item-cache key of an item is the item-cache key of its key attributes,
\* whatever other attributes it carries.
C29_ItemKeyInjective ==
  LET schema == DescribeTable("T2").KeySchema
  IN  /\ \A i1, i2 \in db["T2"] :
           KeyOf("T2", i1) # KeyOf("T2", i2)
             => itemKey("T2", i1, schema) # itemKey("T2", i2, schema)
      /\ \A i \in db["T2"] : itemKey("T2", i, schema) = itemKey("T2", KeyOf("T2", i), schema)

(***************************************************************************)
(* SpecKeys: the request keys of Query and Scan.  The requests carry the   *)
(* optional fields queryKey and scanKey read (a second key condition, a    *)
(* cursor, a filter expression with its placeholder maps, a limit) and the *)
(* segment of a parallel scan; the store is empty, every answer is the     *)
(* empty page.  seen holds the requests answered so far.                   *)
(***************************************************************************)
\* Query(T2, h = "x" AND r = v) on the base table
QueryRange(v) ==
  [TableName |-> "T2", IndexName |-> "",
   KeyConditions |-> [h |-> [ComparisonOperator |-> "EQ", AttributeValueList |-> <<S("x")>>],
                      r |-> [ComparisonOperator |-> "EQ", AttributeValueList |-> <<S(v)>>]]]

\* the LastEvaluatedKey of a page of an index of T2: the index key and the
\* table key of the page's last item
CursorAt(a, r) == [h |-> S("x"), a |-> S(a), r |-> S(r)]

\* the two orders in which a range statement visits a map of two keys
Orders(k1, k2) == {<<k1, k2>>, <<k2, k1>>}

\* FilterExpression "#n = :v1" with the names {#n: a} and the values
\* {:v: 1, :v1: 2}, the values visited in the order range
PrefixFilter(range) ==
  [FilterExpression |-> <<"#", "n", " ", "=", " ", ":", "v", "1">>,
   ExpressionAttributeNames |-> GoMap(<<"#", "n">> :> "a", <<(<<"#", "n">>)>>),
   ExpressionAttributeValues |->
     GoMap((<<":", "v">> :> S("1")) @@ (<<":", "v", "1">> :> S("2")), range)]

\* FilterExpression "a = :m" with the value {:m: M{x: 1, y: 2}}, the map
\* visited in the order range
MapFilter(range) ==
  [FilterExpression |-> <<"a", " ", "=", " ", ":", "m">>,
   ExpressionAttributeNames |-> GoMap(<< >>, << >>),
   ExpressionAttributeValues |->
     GoMap(<<":", "m">> :> [M |-> GoMap([x |-> S("1"), y |-> S("2")], range)],
           <<(<<":", "m">>)>>)]

KeyQueries ==
  {QueryRange("1|5"), [Limit |-> 5] @@ QueryRange("1")}
  \cup {[ExclusiveStartKey |-> CursorAt("p", r)] @@ QueryOn("T2", "l", "h", "x") : r \in {"1", "2"}}
  \cup {PrefixFilter(o) @@ QueryOn("T2", "", "h", "x") :
          o \in Orders(<<":", "v">>, <<":", "v", "1">>)}

KeyScans ==
  {[TableName |-> "T2", IndexName |-> "", Segment |-> n, TotalSegments |-> 2] : n \in {0, 1}}
  \cup {[TableName |-> "T2", IndexName |-> "g", ExclusiveStartKey |-> CursorAt(a, "1")] :
          a \in {"p", "q"}}
  \cup {MapFilter(o) @@ [TableName |-> "T2", IndexName |-> ""] : o \in Orders("x", "y")}

NextKeys ==
  \/ \E input \in KeyQueries : Query(input)
  \/ \E input \in KeyScans : Scan(input)

SpecKeys == Init /\ [][NextKeys]_vars

\* the requests of a set that the Cache has answered
Answered(op, inputs) == {x \in inputs : <<op, x>> \in DOMAIN seen}

\* the request key the Cache derives for a request of T2
KeyOfQuery(input) == queryKey(input, IndexSchemaOf("T2", input.IndexName))

KeyOfScan(input) == scanKey(input, DescribeTable("T2").KeySchema)

FilterFields == {"FilterExpression", "ExpressionAttributeNames", "ExpressionAttributeValues"}

\* what a request asks for: its fields, with the filter expression resolved
Shape(input) ==
  [f \in DOMAIN input \ FilterFields |-> input[f]] @@ [Filter |-> writeFilter(input)]

\* C27: two Query requests, and two Scan requests, that the Cache has
\* answered and that differ in the selected attributes, the direction, the
\* index, a key condition, the cursor, the resolved filter expression, the
\* limit or the segment, have different request keys.
C27_DistinctRequestsDistinctKeys ==
  /\ \A q1, q2 \in Answered("Query", KeyQueries) :
       Shape(q1) # Shape(q2) => KeyOfQuery(q1) # KeyOfQuery(q2)
  /\ \A s1, s2 \in Answered("Scan", KeyScans) :
       Shape(s1) # Shape(s2) => KeyOfScan(s1) # KeyOfScan(s2)

\* an attribute value without the order in which its map is visited
AVContent(av) == IF "M" \in DOMAIN av THEN [M |-> av.M.m] ELSE av

\* a request without the orders in which its maps are visited: two requests
\* with the same content are the same request
Content(input) ==
  IF "FilterExpression" \in DOMAIN input
  THEN [input EXCEPT
          !.ExpressionAttributeNames = @.m,
          !.ExpressionAttributeValues = [k \in DOMAIN @.m |-> AVContent(@.m[k])]]
  ELSE input

\* the attribute values of the placeholders of a request
PlaceholderValues(input) ==
  IF "FilterExpression" \in DOMAIN input
  THEN {input.ExpressionAttributeValues.m[k] : k \in DOMAIN input.ExpressionAttributeValues.m}
  ELSE {}

\* C28: whatever the order in which the maps are visited, the same Query
\* request and the same Scan request, derived twice by the Cache, have the
\* same request key, and the same attribute value of a placeholder,
\* map-typed values included, has the same encoding.
C28_SameRequestSameKey ==
  /\ \A q1, q2 \in Answered("Query", KeyQueries) :
       Content(q1) = Content(q2) => KeyOfQuery(q1) = KeyOfQuery(q2)
  /\ \A s1, s2 \in Answered("Scan", KeyScans) :
       Content(s1) = Content(s2) => KeyOfScan(s1) = KeyOfScan(s2)
  /\ \A s1, s2 \in Answered("Scan", KeyScans) :
       \A v1 \in PlaceholderValues(s1), v2 \in PlaceholderValues(s2) :
         AVContent(v1) = AVContent(v2) => writeAV(v1) = writeAV(v2)

\* a request without its continuation cursor
WithoutCursor(input) == [f \in DOMAIN input \ {"ExclusiveStartKey"} |-> input[f]]

\* the entry of the query cache, and of the scan cache, a request of T2 is
\* cached under
EntryOfQuery(input) ==
  <<queryGroup(input, IndexSchemaOf("T2", input.IndexName)), KeyOfQuery(input)>>

EntryOfScan(input) == <<input.TableName, KeyOfScan(input)>>

\* C30: two Query requests, and two Scan requests, that the Cache has
\* answered and that differ in the continuation cursor only are cached
\* under different entries, on the base table and on an index, where the
\* cursor carries the index key and the table key.
C30_CursorsDistinctEntries ==
  /\ \A q1, q2 \in Answered("Query", KeyQueries) :
       (q1 # q2 /\ WithoutCursor(q1) = WithoutCursor(q2)) => EntryOfQuery(q1) # EntryOfQuery(q2)
  /\ \A s1, s2 \in Answered("Scan", KeyScans) :
       (s1 # s2 /\ WithoutCursor(s1) = WithoutCursor(s2)) => EntryOfScan(s1) # EntryOfScan(s2)

(***************************************************************************)
(* SpecEncode: writeAV on booleans and on the nil value.  A scan carries a *)
(* boolean as the value of a filter placeholder; a GetItem whose key lacks *)
(* the range attribute hands writeItemKey the nil value (key[name] of a    *)
(* missing name).                                                          *)
(***************************************************************************)
\* FilterExpression "a = :b" with the value {:b: BOOL b}
BoolFilter(b) ==
  [FilterExpression |-> <<"a", " ", "=", " ", ":", "b">>,
   ExpressionAttributeNames |-> GoMap(<< >>, << >>),
   ExpressionAttributeValues |-> GoMap(<<":", "b">> :> [BOOL |-> b], <<(<<":", "b">>)>>)]

EncodeScans == {BoolFilter(b) @@ [TableName |-> "T2", IndexName |-> ""] : b \in BOOLEAN}

\* a key of T2 with both attributes, and one without the range attribute
EncodeKeys == QueryKeys \cup {[h |-> S("x")]}

NextEncode ==
  \/ \E input \in EncodeScans : Scan(input)
  \/ \E k \in EncodeKeys : GetItem("T2", k)
  \/ \E i \in ItemsOver(QueryKeys) : PutItem("T2", i)

SpecEncode == Init /\ [][NextEncode]_vars

\* C31: writeAV encodes the boolean true as "true" and the boolean false as
\* "false", in every scan the Cache has answered; and a GetItem whose key
\* hands writeAV the nil value does not crash.
C31_BoolAndNilTokens ==
  /\ \A input \in Answered("Scan", EncodeScans) :
       \A v \in PlaceholderValues(input) :
         writeAV(v) = IF v.BOOL THEN "true" ELSE "false"
  /\ \A k \in EncodeKeys : GetItemWithContext(Now, "T2", k, TRUE, TRUE).err # "panic"

(***************************************************************************)
(* Expiry of query and scan entries                                        *)
(***************************************************************************)
\* C32: a Query or a Scan whose cache entry was stored five minutes ago or
\* longer is a miss: it issues the remote call, whether that call succeeds
\* or not, and what it returns is the store's answer, not the entry.
C32_ExpiredQueryIsMiss ==
  /\ \A input \in TTLQueries :
       (QueryEntry(input) \in DOMAIN queries /\ Expired(queries[QueryEntry(input)]))
         => \A rOk \in BOOLEAN :
              LET r == QueryWithContext(Now, input, TRUE, rOk)
              IN  /\ CallsOf(r, "Query") # << >>
                  /\ rOk => r.out = StoreQuery(db, input)
  /\ \A input \in Scans :
       (ScanEntry(input) \in DOMAIN scans /\ Expired(scans[ScanEntry(input)]))
         => \A rOk \in BOOLEAN :
              LET r == ScanWithContext(Now, input, TRUE, rOk)
              IN  /\ CallsOf(r, "Scan") # << >>
                  /\ rOk => r.out = StoreScan(db, input)

(***************************************************************************)
(* SpecItemTTL: the item cache of one key of T2 over time; the callers     *)
(* take turns.                                                             *)
(***************************************************************************)
NextItemTTL ==
  \/ \E k \in QueryKeys : GetItem("T2", k)
  \/ \E k \in QueryKeys :
       \E unproc \in SUBSET {[table |-> "T2", key |-> k]} :
         BatchGetItem(<<[table |-> "T2", Keys |-> <<k>>]>>, unproc)
  \/ \E i \in ItemsOver(QueryKeys) : PutItem("T2", i)
  \/ \E k \in QueryKeys : DeleteItem("T2", k)
  \/ \E k \in QueryKeys, u \in Updates, rv \in ReturnValues : UpdateItem("T2", k, u, rv)
  \/ FiveMinutesPass

SpecItemTTL == Init /\ [][NextItemTTL]_vars

\* the successful puts, deletes and new-image updates of the key k
ItemWrites(k) ==
  {PutItemWithContext(Now, "T2", i, TRUE, TRUE) : i \in {j \in ItemsOver(QueryKeys) : KeyOf("T2", j) = k}}
  \cup {DeleteItemWithContext(Now, "T2", k, rv, TRUE, TRUE) : rv \in DeleteReturnValues}
  \cup {UpdateItemWithContext(Now, "T2", k, u, "ALL_NEW", TRUE, 1, TRUE) : u \in Updates}

\* C33: a GetItem and a BatchGetItem of a key whose item-cache entry was
\* stored 15 minutes ago or longer fetch the key from the store, whether the
\* remote call succeeds or not, and a successful GetItem returns the
\* store's item; and after a successful put, delete or new-image update of
\* a key its entry has the whole TTL before it.
C33_ExpiredItemIsMiss ==
  \A k \in QueryKeys :
    /\ (T2Key(k) \in DOMAIN items /\ Expired(items[T2Key(k)])) =>
         \A rOk \in BOOLEAN :
           LET g == GetItemWithContext(Now, "T2", k, TRUE, rOk)
               b == BatchGetItemWithContext(Now, <<[table |-> "T2", Keys |-> <<k>>]>>,
                                            TRUE, rOk, {})
           IN  /\ Len(CallsOf(g, "GetItem")) = 1
               /\ rOk => g.err = "" /\ g.out = StoreGet(db, "T2", k)
               /\ ~rOk => g.err # "" /\ b.err # ""
               /\ BatchGetAsked(b) = {k}
               /\ rOk => /\ b.err = ""
                          /\ \A n \in 1..Len(Lookup(b.out.Responses, "T2")) :
                               b.out.Responses["T2"][n] = StoreGet(db, "T2", k)
    /\ \A w \in ItemWrites(k) :
         w.err = "" =>
           /\ T2Key(k) \in DOMAIN w.c.items
           /\ w.c.items[T2Key(k)].ttl = cacheTTL
           /\ getItem(w.c, T2Key(k)).ok

\* a GetItem that an earlier GetItem of the same key preceded with no write
\* in between met an expired entry: it fetched the item from the store and
\* cached it anew
C33_RefetchedExpired ==
  /\ last.op = "GetItem" /\ last.err = ""
  /\ last.remote = <<"GetItem">>
  /\ last.seen # NoRec
  /\ \E k \in QueryKeys : T2Key(k) \in DOMAIN items /\ items[T2Key(k)].ttl = cacheTTL

(***************************************************************************)
(* SpecDescTTL: cached table descriptions over days.                       *)
(***************************************************************************)
\* a store's entries n times five minutes later
OlderBy(store, n) ==
  [k \in DOMAIN store |-> [store[k] EXCEPT !.ttl = IF @ > n THEN @ - n ELSE 0]]

\* 24 hours pass without a call: ccache keeps every entry, expired or not,
\* until the LRU evicts it
ADayPasses ==
  /\ <<OlderBy(items, descTTL), OlderBy(queries, descTTL), OlderBy(scans, descTTL),
       OlderBy(tableDesc, descTTL)>> # <<items, queries, scans, tableDesc>>
  /\ items' = OlderBy(items, descTTL)
  /\ queries' = OlderBy(queries, descTTL)
  /\ scans' = OlderBy(scans, descTTL)
  /\ tableDesc' = OlderBy(tableDesc, descTTL)
  /\ UNCHANGED pending
  /\ UNCHANGED readUnchanged

NextDescTTL ==
  \/ \E t \in {"T1", "T2"}, k \in QueryKeys : GetItem(t, k)
  \/ \E i \in ItemsOver(QueryKeys) : PutItem("T2", i)
  \/ \E k \in QueryKeys : DeleteItem("T2", k)
  \/ ADayPasses

SpecDescTTL == Init /\ [][NextDescTTL]_vars

\* C34: a call that needs the description of a table whose cached
\* description was stored 24 hours ago or longer fetches the description
\* again with DescribeTable.
C34_ExpiredDescRefetched ==
  \A t \in {"T1", "T2"} :
    (t \in DOMAIN tableDesc /\ Expired(tableDesc[t])) =>
      /\ CallsOf(desc(Cache, t, TRUE), "DescribeTable") # << >>
      /\ \A k \in QueryKeys :
           CallsOf(GetItemWithContext(Now, t, k, TRUE, TRUE), "DescribeTable") # << >>

(***************************************************************************)
(* Order of purge and write within one mutating call                      *)
(***************************************************************************)
\* the cache at the moment a mutating call of T2 that prefetches the key k
\* sends its write: after schemaOf and prefetcher.run with the read complete
AtWrite(k) ==
  prefetchRun(schemaOf(Cache, "T2", TRUE).c, db, <<[table |-> "T2", key |-> k]>>, 1, TRUE).c

\* the successful single-key mutations of k
KeyMutations(k) ==
  ItemWrites(k)
  \cup {UpdateItemWithContext(Now, "T2", k, u, rv, TRUE, 1, TRUE) :
          u \in Updates, rv \in OldImageReturnValues}
  \cup BlindDeletes(k, 1, TRUE)

\* C35: a mutating call has purged no query or scan group when it sends the
\* remote write, and after a successful mutation of a key the item cache
\* holds under the key nothing but the store's state after the write.
C35_PurgeAfterWrite ==
  \A k \in QueryKeys :
    /\ AtWrite(k).queries = queries
    /\ AtWrite(k).scans = scans
    /\ \A w \in KeyMutations(k) :
         w.err = "" =>
           LET e == getItem(w.c, T2Key(k))
           IN  ~e.ok \/ ServedItem(e) = StoreGet(w.db, "T2", k)

(***************************************************************************)
(* Cancellation                                                            *)
(***************************************************************************)
\* whether a remote call is issued with the caller's ctx: every forwarded
\* call is the WithContext variant, desc calls DescribeTable (line 609),
\* which runs under the background context
CarriesContext(call) == call.call # "DescribeTable"

\* the calls on the key k of T2 made with a context that is cancelled
\* already: every remote call that carries the context fails at once, and
\* DescribeTable succeeds or fails as the store decides (dOk)
CancelledCalls(k, dOk) ==
  {GetItemWithContext(Now, "T2", k, dOk, FALSE),
   DeleteItemWithContext(Now, "T2", k, "", dOk, FALSE)}
  \cup {PutItemWithContext(Now, "T2", i, dOk, FALSE) :
          i \in {j \in ItemsOver(QueryKeys) : KeyOf("T2", j) = k}}
  \cup {UpdateItemWithContext(Now, "T2", k, u, rv, dOk, 0, FALSE) :
          u \in Updates, rv \in ReturnValues}
  \cup {QueryWithContext(Now, input, dOk, FALSE) : input \in TTLQueries}

\* C36: every remote call of an operation carries the caller's context, so
\* an operation called with a cancelled context gets no remote call through
\* and writes no entry into any of the four caches.
C36_ContextEverywhere ==
  \A k \in QueryKeys, dOk \in BOOLEAN :
    \A r \in CancelledCalls(k, dOk) :
      /\ \A n \in 1..Len(r.c.remote) : CarriesContext(r.c.remote[n])
      /\ r.c.tableDesc = tableDesc
      /\ Caches(r.c) = Caches(Cache)

(***************************************************************************)
(* SpecDebug: the calls on one key of T2, each compared with the same call *)
(* made with Debug set.                                                    *)
(***************************************************************************)
DebugBatchWrites == BatchWrites("T2", QueryKeys, ItemsOver(QueryKeys))

DebugTransacts == Transacts("T2", QueryKeys, ItemsOver(QueryKeys), Updates)

NextDebug ==
  \/ \E k \in QueryKeys : GetItem("T2", k)
  \/ \E i \in ItemsOver(QueryKeys) : PutItem("T2", i)
  \/ \E k \in QueryKeys : DeleteItem("T2", k)
  \/ \E k \in QueryKeys, u \in Updates, rv \in {"", "ALL_OLD"} : UpdateItem("T2", k, u, rv)
  \/ \E input \in TTLQueries : Query(input)
  \/ \E input \in Scans : Scan(input)
  \/ \E reqs \in BatchGets("T2", QueryKeys) : BatchGetItem(reqs, {})
  \/ \E reqs \in DebugBatchWrites : BatchWriteItem(reqs, {})
  \/ \E titems \in DebugTransacts : TransactWriteItems(titems)

SpecDebug == Init /\ [][NextDebug]_vars

\* the Cache with Debug set
DebugOn(st) == [st EXCEPT !.c.Debug = TRUE]

\* what a call shows apart from its log lines: the response, the remote
\* calls, the remote store and the contents of the caches
Observed(r) ==
  [err |-> r.err, out |-> r.out, remote |-> r.c.remote, db |-> r.db,
   items |-> r.c.items, tableDesc |-> r.c.tableDesc, queries |-> r.c.queries,
   scans |-> r.c.scans, hits |-> r.c.hits, miss |-> r.c.miss]

\* every call with every outcome of its remote calls, made by st
CallsBy(st) ==
  [get |-> [k \in QueryKeys, dOk \in BOOLEAN, rOk \in BOOLEAN |->
              GetItemWithContext(st, "T2", k, dOk, rOk)],
   put |-> [i \in ItemsOver(QueryKeys), dOk \in BOOLEAN, rOk \in BOOLEAN |->
              PutItemWithContext(st, "T2", i, dOk, rOk)],
   del |-> [k \in QueryKeys, dOk \in BOOLEAN, rOk \in BOOLEAN |->
              DeleteItemWithContext(st, "T2", k, "", dOk, rOk)],
   upd |-> [k \in QueryKeys, u \in Updates, rv \in ReturnValues, dOk \in BOOLEAN,
            pages \in 0..1, rOk \in BOOLEAN |->
              UpdateItemWithContext(st, "T2", k, u, rv, dOk, pages, rOk)],
   query |-> [input \in TTLQueries, dOk \in BOOLEAN, rOk \in BOOLEAN |->
                QueryWithContext(st, input, dOk, rOk)],
   scan |-> [input \in Scans, dOk \in BOOLEAN, rOk \in BOOLEAN |->
               ScanWithContext(st, input, dOk, rOk)],
   bget |-> [reqs \in BatchGets("T2", QueryKeys), dOk \in BOOLEAN, rOk \in BOOLEAN |->
               BatchGetItemWithContext(st, reqs, dOk, rOk, {})],
   bwrite |-> [reqs \in DebugBatchWrites, dOk \in BOOLEAN, pages \in 0..1, rOk \in BOOLEAN |->
                 BatchWriteItemWithContext(st, reqs, dOk, pages, rOk, {})],
   transact |-> [titems \in DebugTransacts, dOk \in BOOLEAN, pages \in 0..1, rOk \in BOOLEAN |->
                   TransactWriteItemsWithContext(st, titems, dOk, pages, rOk)]]

\* C37: from the same caches and the same store, every call with Debug set
\* gives the response, the remote calls, the store and the cache contents of
\* the call without it; and without Debug nothing is logged.
C37_DebugOnlyLogs ==
  LET off == CallsBy(Now)
      on == CallsBy(DebugOn(Now))
  IN  \A op \in DOMAIN off :
        \A x \in DOMAIN off[op] :
          /\ Observed(on[op][x]) = Observed(off[op][x])
          /\ off[op][x].c.logged = << >>

\* a GetItem was answered from the cache; made with Debug it logs the hit,
\* and a PutItem made with Debug logs the set and the purges
C37_DebugLogsHit ==
  /\ last.op = "GetItem" /\ last.err = "" /\ last.remote = << >>
  /\ \E k \in QueryKeys :
       GetItemWithContext(DebugOn(Now), "T2", k, TRUE, TRUE).c.logged = <<"returning cached">>
  /\ \E i \in ItemsOver(QueryKeys) :
       LET w == PutItemWithContext(DebugOn(Now), "T2", i, TRUE, TRUE)
       IN  /\ Len(w.c.logged) > 1
           /\ w.c.logged[1] = "caching put"
           /\ w.c.logged[2] = "invalidate"

(***************************************************************************)
(* SpecGroup: the group a query is stored under and the groups a write     *)
(* purges, on T1 (key h, global index s on a) and T2 (key h, r, global     *)
(* index g on a, r, local index l on h, a).                                *)
(***************************************************************************)
GroupQueries == Queries \cup {QueryOn("T1", "s", "a", v) : v \in AVals}

GroupItems(table) ==
  IF table = "T1" THEN {[h |-> S("x")]} \cup {[h |-> S("x"), a |-> S(v)] : v \in AVals}
  ELSE ItemsOver(QueryKeys)

NextGroup ==
  \/ \E t \in Tables : \E i \in GroupItems(t) : PutItem(t, i)
  \/ \E input \in GroupQueries : Query(input)
  \/ \E k \in QueryKeys, u \in Updates, rv \in ReturnValues : UpdateItem("T2", k, u, rv)
  \/ \E k \in QueryKeys : DeleteItem("T2", k)

SpecGroup == Init /\ [][NextGroup]_vars

\* the cached queries of a table that are stored in a group of the item:
\* those of a single-component schema, and those scoped to the item's value
\* of the hash attribute of their table or index
StoredFor(table, item) ==
  {q \in GroupQueries :
     /\ q.TableName = table
     /\ IndexEntry(q) \in DOMAIN queries
     /\ LET schema == IndexSchemaOf(table, q.IndexName)
        IN  \/ Len(schema) = 1
            \/ schema[1] \in DOMAIN item /\ item[schema[1]] = IndexHashOf(q)}

\* the successful writes of the item under the key k of T2, each with the
\* item written: the image after the write, for a delete the image before it
GroupWrites(k) ==
  {[w |-> PutItemWithContext(Now, "T2", i, TRUE, TRUE), item |-> i] :
     i \in {j \in ItemsOver(QueryKeys) : KeyOf("T2", j) = k}}
  \cup {[w |-> DeleteItemWithContext(Now, "T2", k, "", TRUE, TRUE),
          item |-> StoreGet(db, "T2", k)]}
  \cup {[w |-> UpdateItemWithContext(Now, "T2", k, u, rv, TRUE, 1, TRUE),
          item |-> StoreGet(StoreUpdate(db, "T2", k, u), "T2", k)] :
          u \in Updates, rv \in ReturnValues}

\* C38: the group a query scoped to the hash value V is stored under is
\* the group invalidate purges for an item with the value V of that hash
\* attribute, and for a single-component schema the group without a hash
\* value: invalidate with the item leaves none of the queries stored for
\* it; hence after a successful write of an item none of the queries
\* stored for the written item is cached.
C38_StoredGroupIsPurgedGroup ==
  /\ \A t \in Tables :
       \A i \in GroupItems(t) :
         \A q \in StoredFor(t, i) :
           IndexEntry(q) \notin DOMAIN invalidate(Cache, t, i, TRUE).queries
  /\ \A k \in QueryKeys :
       \A x \in GroupWrites(k) :
         (x.w.err = "" /\ x.item # Nil) =>
           \A q \in StoredFor("T2", x.item) : IndexEntry(q) \notin DOMAIN x.w.c.queries

(***************************************************************************)
(* SpecRace: reads of T2 that missed, running beside the mutations of the  *)
(* same key and table.  A read is two steps, its remote call and its Set;  *)
(* a mutation takes place between them as one step.                        *)
(***************************************************************************)
NextRace ==
  \/ \E i \in QueryKeys : PutItem("T2", i)
  \/ \E k \in QueryKeys : DeleteItem("T2", k)
  \/ \E k \in QueryKeys, u \in Updates \ {Nil}, rv \in {"", "ALL_OLD"} : UpdateItem("T2", k, u, rv)
  \/ \E caller \in Callers, k \in QueryKeys : getItemBegin(caller, "T2", k)
  \/ \E caller \in Callers : getItemEnd(caller)
  \/ \E caller \in Callers, input \in TTLQueries : queryBegin(caller, input)
  \/ \E caller \in Callers : queryEnd(caller)
  \/ \E caller \in Callers, input \in Scans : scanBegin(caller, input)
  \/ \E caller \in Callers : scanEnd(caller)

SpecRace == Init /\ [][NextRace]_vars

\* every call has returned
AllReturned == \A caller \in Callers : pending[caller] = Idle

\* C39: once a GetItem that missed and a PutItem, DeleteItem or UpdateItem
\* of the same key that ran beside it have both returned, the item cache
\* holds under the key no entry or what the store holds for the key.
C39_NoStaleItemAfterRace ==
  AllReturned =>
    \A k \in QueryKeys :
      T2Key(k) \in DOMAIN items => ServedItem(items[T2Key(k)]) = StoreGet(db, "T2", k)

\* C40: once a Query or a Scan that missed and a mutation of the same table
\* that ran beside it have both returned, every cached query and scan
\* result is what the store returns for the request.
C40_NoStaleResultAfterRace ==
  AllReturned =>
    /\ \A input \in TTLQueries :
         QueryEntry(input) \in DOMAIN queries
           => queries[QueryEntry(input)].v = StoreQuery(db, input)
    /\ \A input \in Scans :
         ScanEntry(input) \in DOMAIN scans => scans[ScanEntry(input)].v = StoreScan(db, input)

====
